---------------------------- MODULE Spec2Model ----------------------------
(***************************************************************************)
(* Model of the arbitrage scanner core: MarketGraph, PathModel (cycle      *)
(* enumeration) and OrderbookCache with its two ingestion paths            *)
(* (polling update and the WebSocket watcher).                             *)
(*                                                                         *)
(* Prices, sizes and timestamps are small integers; float(p) of such an    *)
(* integer is the same number, int(t) of an integer timestamp likewise.    *)
(***************************************************************************)
EXTENDS Integers, Sequences, FiniteSets, TLC

VARIABLES
    cfg,              \* PathModel: the Config / market listing the model was built from
    paths,            \* PathModel._paths
    built,            \* PathModel.__init__ has run
    paths_again,      \* <<_paths>> of a second PathModel over the same graph and config, <<>> before
    ev,               \* PathEvaluator: the config, the arguments of one evaluate call, its result
    single_exchange,  \* OrderbookCache._single_exchange ("" for None)
    books,            \* OrderbookCache._books, a dict: <<key, snapshot>> pairs in insertion order
    lock,             \* OrderbookCache._lock: the task inside "async with self._lock"
    rd,               \* the reading task: the call it makes and what it has read
    ws,               \* WebSocketManager._watch_orderbook: symbol, error_count, loop state
    stop_event,       \* the stop_event handed to the watcher
    last_update,      \* the most recent ingestion event (history, not program state)
    vol,              \* VolatilityCache: its config, _samples, and the most recent call on it
    scan,             \* ArbitrageScannerMulti: its fields and the position of run_once
    mgr               \* WSManager or WebSocketManager: its tasks, its exchange handle, its shutdown

pathVars == <<cfg, paths, built, paths_again>>
cacheVars == <<single_exchange, books, lock, rd, ws, stop_event, last_update>>
evalVars == <<ev>>
sysVars == <<vol, scan, mgr>>
vars == <<cfg, paths, built, paths_again, ev, single_exchange, books, lock, rd, ws, stop_event,
          last_update, vol, scan, mgr>>

--------------------------------------------------------------------------
(* Bounds *)

MaxLength == 4        \* largest paths.max_length drawn
MaxMinLength == 3     \* largest paths.min_length drawn

--------------------------------------------------------------------------
(* Generic helpers *)

Range(s) == {s[i] : i \in 1..Len(s)}

\* all sequences without repetition over the set S
RECURSIVE Perms(_)
Perms(S) ==
    IF S = {} THEN {<<>>}
    ELSE UNION {{<<x>> \o p : p \in Perms(S \ {x})} : x \in S}

\* the ordered listings: every permutation of every subset of S
Listings(S) == UNION {Perms(T) : T \in SUBSET S}

--------------------------------------------------------------------------
(* MarketGraph *)

FeeRateE4 == 4     \* fee_rate = 0.0004, in units of 1e-4
DefaultMinTotal == 1

MarketInfo(q, b) == [market |-> q \o "-" \o b, base_currency |-> b, quote_currency |-> q]

\* config without a min_order section (getattr(config, "min_order", None) is None)
NoMinOrder == [present |-> FALSE]

\* MarketGraph._compute_min_total
_compute_min_total(min_order, quote) ==
    IF ~min_order.present THEN DefaultMinTotal
    ELSE (IF quote \in DOMAIN min_order.quote_min_notional
             THEN min_order.quote_min_notional[quote] ELSE DefaultMinTotal)
         * min_order.min_notional_multiplier

buy_edge(m, min_order) ==
    [market_code |-> m.market, from_asset |-> m.quote_currency,
     to_asset |-> m.base_currency, side |-> "buy", fee_rate |-> FeeRateE4,
     min_total |-> _compute_min_total(min_order, m.quote_currency),
     is_reversed |-> FALSE, exchange |-> ""]

sell_edge_BaseMinimum(m, min_order) ==
    [market_code |-> m.market, from_asset |-> m.base_currency,
     to_asset |-> m.quote_currency, side |-> "sell", fee_rate |-> FeeRateE4,
     min_total |-> _compute_min_total(min_order, m.base_currency),
     is_reversed |-> TRUE, exchange |-> ""]

sell_edge(m, min_order) ==
    [market_code |-> m.market, from_asset |-> m.base_currency,
     to_asset |-> m.quote_currency, side |-> "sell", fee_rate |-> FeeRateE4,
     min_total |-> _compute_min_total(min_order, m.quote_currency),
     is_reversed |-> TRUE, exchange |-> ""]

\* {m.market: m for m in markets}: one entry per market code, at the place of
\* its first listing, holding its last listing
RECURSIVE MarketsByCode(_)
MarketsByCode(markets) ==
    IF markets = <<>> THEN <<>>
    ELSE LET n == Len(markets)
             m == markets[n]
             before == MarketsByCode(SubSeq(markets, 1, n - 1))
         IN IF \E i \in 1..Len(before) : before[i].market = m.market
               THEN [i \in 1..Len(before) |-> IF before[i].market = m.market THEN m ELSE before[i]]
               ELSE Append(before, m)

\* the loop of MarketGraph.__init__, lines 44-80: _add_edge of the buy edge, then
\* of the sell edge, for each market in dict order
RECURSIVE _add_edges(_, _)
_add_edges(markets, min_order) ==
    IF markets = <<>> THEN <<>>
    ELSE <<buy_edge(Head(markets), min_order), sell_edge(Head(markets), min_order)>>
         \o _add_edges(Tail(markets), min_order)

\* MarketGraph.__init__ on a list of markets: the value of self._edges
MarketGraph(markets, min_order) == _add_edges(MarketsByCode(markets), min_order)

\* the order of _by_source[asset] turned around
out_edges_Reversed(graph, asset) ==
    LET oe == SelectSeq(graph, LAMBDA e : e.from_asset = asset)
    IN [i \in 1..Len(oe) |-> oe[Len(oe) + 1 - i]]

\* MarketGraph.out_edges: _by_source[asset], insertion order
out_edges(graph, asset) == SelectSeq(graph, LAMBDA e : e.from_asset = asset)

--------------------------------------------------------------------------
(* PathModel._build_paths *)

start_asset == "USD"

\* tokens.get(asset)
\* a missing rule (Python None) is the record NoRule, which "not token_rule" tests
NoRule == [present |-> FALSE, enabled |-> FALSE, allowed_as_bridge |-> FALSE,
           allowed_as_terminal_asset |-> FALSE]

TokenGet(tokens, asset) == IF asset \in DOMAIN tokens THEN tokens[asset] ELSE NoRule

\* line 61: a terminal-only predecessor may only step back to the anchor
MustReturnSkip(must_return_to_usd, edge) ==
    must_return_to_usd /\ edge.to_asset # start_asset

TokenRuleSkip_NoEnabledCheck(tokens, next_asset) ==
    /\ next_asset # start_asset
    /\ LET token_rule == TokenGet(tokens, next_asset) IN
        \/ ~token_rule.present
        \/ token_rule.present /\ ~token_rule.allowed_as_terminal_asset /\ ~token_rule.allowed_as_bridge

\* lines 65-70: the token rule of a non-anchor target
TokenRuleSkip(tokens, next_asset) ==
    /\ next_asset # start_asset
    /\ LET token_rule == TokenGet(tokens, next_asset) IN
        \/ ~token_rule.present
        \/ token_rule.present /\ ~token_rule.enabled
        \/ token_rule.present /\ ~token_rule.allowed_as_terminal_asset /\ ~token_rule.allowed_as_bridge

RevisitSkip_Never(pcfg, visited, next_asset) == FALSE

\* lines 72-77: the revisit policy
RevisitSkip(pcfg, visited, next_asset) ==
    /\ ~pcfg.allow_revisit_nodes
    /\ next_asset \in visited
    /\ next_asset # start_asset

Emits_IgnoreMin(pcfg, next_asset, nEdges) == next_asset = start_asset

\* line 82: a closed cycle of sufficient length is emitted
Emits(pcfg, next_asset, nEdges) ==
    next_asset = start_asset /\ nEdges >= pcfg.min_length

RequireReturn_Never(tokens, next_asset) == FALSE

\* lines 96-99: require_return for the recursive call
RequireReturn(tokens, next_asset) ==
    IF next_asset # start_asset
        THEN ~TokenGet(tokens, next_asset).allowed_as_bridge
        ELSE FALSE

\* line 86: f"path_{path_id}"
FormatPathId(path_id) == "path_" \o ToString(path_id)

\* the state the nested function shares across calls: paths, path_id (nonlocal)
\* and the visited set, which is mutated in place
RECURSIVE dfs(_, _, _, _, _, _, _)
RECURSIVE dfs_loop(_, _, _, _, _, _, _, _)

dfs(c, graph, current_asset, edges, assets, must_return_to_usd, st) ==
    IF Len(edges) >= c.paths.max_length THEN st
    ELSE dfs_loop(c, graph, out_edges(graph, current_asset), 1,
                  edges, assets, must_return_to_usd, st)

\* the body of "for edge in out_edges(current_asset)", iteration i
dfs_loop(c, graph, oe, i, edges, assets, must_return_to_usd, st) ==
    IF i > Len(oe) THEN st
    ELSE
      LET edge == oe[i]
          next_asset == edge.to_asset
          edges2 == Append(edges, edge)
          assets2 == Append(assets, next_asset)
          after ==
            IF \/ MustReturnSkip(must_return_to_usd, edge)
               \/ TokenRuleSkip(c.tokens, next_asset)
               \/ RevisitSkip(c.paths, st.visited, next_asset)
            THEN st
            ELSE IF Emits(c.paths, next_asset, Len(edges2))
            THEN [st EXCEPT !.path_id = @ + 1,
                            !.paths = Append(@, [path_id |-> FormatPathId(st.path_id + 1),
                                                 edges |-> edges2,
                                                 assets |-> assets2])]
            ELSE IF Len(edges2) < c.paths.max_length
            THEN LET st1 == IF next_asset # start_asset
                              THEN [st EXCEPT !.visited = @ \cup {next_asset}]
                              ELSE st
                     st2 == dfs(c, graph, next_asset, edges2, assets2,
                                RequireReturn(c.tokens, next_asset), st1)
                 IN IF next_asset # start_asset
                      THEN [st2 EXCEPT !.visited = @ \ {next_asset}]
                      ELSE st2
            ELSE st
      IN dfs_loop(c, graph, oe, i + 1, edges, assets, must_return_to_usd, after)

_build_paths(c) ==
    dfs(c, MarketGraph(c.markets, c.min_order), start_asset, <<>>, <<start_asset>>, FALSE,
        [paths |-> <<>>, path_id |-> 0, visited |-> {}]).paths

--------------------------------------------------------------------------
(* Inputs of the enumeration *)

Assets == {"USD", "X", "Y"}

MarketUniverse == {MarketInfo("USD", "X"), MarketInfo("X", "Y"), MarketInfo("USD", "Y")}

Rule(en, br, te) ==
    [present |-> TRUE, enabled |-> en, allowed_as_bridge |-> br, allowed_as_terminal_asset |-> te]

\* a token is missing from config.tokens, or has one of these rules
RuleChoices == {NoRule, Rule(FALSE, TRUE, TRUE), Rule(TRUE, TRUE, TRUE), Rule(TRUE, TRUE, FALSE),
                Rule(TRUE, FALSE, TRUE), Rule(TRUE, FALSE, FALSE)}

TokensOf(rx, ry) ==
    [a \in {t \in {"X", "Y"} : (IF t = "X" THEN rx ELSE ry).present} |->
        IF a = "X" THEN rx ELSE ry]

\* a min_order section: USD has a configured minimum, the other quotes have none
MinOrder(usd_min, multiplier) ==
    [present |-> TRUE, quote_min_notional |-> [q \in {"USD"} |-> usd_min],
     min_notional_multiplier |-> multiplier]

MinOrderChoices == {NoMinOrder, MinOrder(5, 2)}

\* listings that name a market twice
RepeatedListings == {l \o <<l[1]>> : l \in {p \in Listings(MarketUniverse) : Len(p) = 2}}

MarketListings == Listings(MarketUniverse) \cup RepeatedListings

Configs ==
    {[markets |-> ms, min_order |-> mo, tokens |-> TokensOf(rx, ry),
      paths |-> [min_length |-> lo, max_length |-> hi, allow_revisit_nodes |-> rv]] :
        ms \in MarketListings, mo \in MinOrderChoices, rx \in RuleChoices, ry \in RuleChoices,
        lo \in 1..MaxMinLength, hi \in 1..MaxLength, rv \in BOOLEAN}

--------------------------------------------------------------------------
(* Numbers of the evaluator: exact fractions [n, d] in lowest terms, d > 0.    *)
(* The source computes in IEEE-754 doubles; the model computes the real value *)
(* of each expression, so rounding error is outside of it.                   *)

Abs(i) == IF i < 0 THEN -i ELSE i

RECURSIVE GCD(_, _)
GCD(a, b) == IF b = 0 THEN a ELSE GCD(b, a % b)

\* the fraction n/d, d # 0
Q(n, d) ==
    LET g == GCD(Abs(n), Abs(d))
        sgn == IF d < 0 THEN -1 ELSE 1
    IN [n |-> sgn * (n \div g), d |-> sgn * (d \div g)]

Zero == Q(0, 1)
One == Q(1, 1)

LCM(a, b) == (a \div GCD(a, b)) * b

Plus(x, y) ==
    LET l == LCM(x.d, y.d) IN Q(x.n * (l \div x.d) + y.n * (l \div y.d), l)

Minus(x, y) ==
    LET l == LCM(x.d, y.d) IN Q(x.n * (l \div x.d) - y.n * (l \div y.d), l)

Times(x, y) ==
    LET g1 == GCD(Abs(x.n), y.d)
        g2 == GCD(Abs(y.n), x.d)
    IN Q((x.n \div g1) * (y.n \div g2), (x.d \div g2) * (y.d \div g1))

\* x / y, y # 0
Over(x, y) == Times(x, IF y.n < 0 THEN [n |-> -y.d, d |-> -y.n] ELSE [n |-> y.d, d |-> y.n])

\* -1, 0 or 1 as x is below, equal to or above y: the whole parts decide, then
\* the reciprocals of the fractional parts
RECURSIVE Compare(_, _)
Compare(x, y) ==
    LET fx == x.n \div x.d
        fy == y.n \div y.d
        rx == x.n % x.d
        ry == y.n % y.d
    IN IF fx < fy THEN -1
       ELSE IF fx > fy THEN 1
       ELSE IF rx = 0 /\ ry = 0 THEN 0
       ELSE IF rx = 0 THEN -1
       ELSE IF ry = 0 THEN 1
       ELSE Compare([n |-> y.d, d |-> ry], [n |-> x.d, d |-> rx])

Less(x, y) == Compare(x, y) < 0
LessEq(x, y) == Compare(x, y) <= 0

Max(x, y) == IF Less(x, y) THEN y ELSE x

\* the closure epsilon of the depth walk is 1e-9 = 1 / EpsilonInverse
EpsilonInverse == 1000000000

\* x > 1e-9
AboveEpsilon(x) == x.n > 0 /\ (x.d \div x.n) < EpsilonInverse

--------------------------------------------------------------------------
(* OrderbookCache: values *)

NoOwner == "free"
Reader == "reader"

\* a raw timestamp that is None (or missing)
TsNone == -1

OrderbookLevel(p, q) == [price |-> p, size |-> q]

OrderbookSnapshot(e, m, b, a, t) ==
    [exchange |-> e, market |-> m, bids |-> b, asks |-> a, timestamp_ms |-> t]

\* f"{exchange}.{market}"
Key(e, m) == e \o "." \o m

\* f"{exchange}::{market}", the exchange-prefixed market code
Prefixed(e, m) == e \o "::" \o m

\* dict.get(key): <<>> for None, <<value>> otherwise
DictGet(d, k) ==
    IF \E i \in 1..Len(d) : d[i][1] = k
        THEN <<d[CHOOSE i \in 1..Len(d) : d[i][1] = k][2]>>
        ELSE <<>>

\* d[key] = value as a list that takes every value as a new entry
DictSet_AlwaysAppends(d, k, v) == Append(d, <<k, v>>)

\* d[key] = value: an existing key keeps its position, a new key goes last
DictSet(d, k, v) ==
    IF \E i \in 1..Len(d) : d[i][1] = k
        THEN [i \in 1..Len(d) |-> IF d[i][1] = k THEN <<k, v>> ELSE d[i]]
        ELSE Append(d, <<k, v>>)

\* [OrderbookLevel(float(p), float(q)) for p, q in raw if p > 0 and q > 0]
PositiveLevels(raw) ==
    LET kept == SelectSeq(raw, LAMBDA l : l[1] > 0 /\ l[2] > 0)
    IN [i \in 1..Len(kept) |-> OrderbookLevel(kept[i][1], kept[i][2])]

\* [OrderbookLevel(float(p), float(q)) for p, q in raw]
AllLevels(raw) == [i \in 1..Len(raw) |-> OrderbookLevel(raw[i][1], raw[i][2])]

\* the order of list.sort(key=price, reverse=...) on two levels
SortsBefore(x, y, reverse) == IF reverse THEN x.price > y.price ELSE x.price < y.price

\* list.sort is stable: x goes behind every element that does not sort after it
RECURSIVE InsertBy(_, _, _)
InsertBy(x, sorted, reverse) ==
    IF sorted = <<>> THEN <<x>>
    ELSE IF SortsBefore(x, Head(sorted), reverse) THEN <<x>> \o sorted
    ELSE <<Head(sorted)>> \o InsertBy(x, Tail(sorted), reverse)

RECURSIVE SortBy(_, _)
SortBy(levels, reverse) ==
    IF levels = <<>> THEN <<>>
    ELSE InsertBy(levels[Len(levels)], SortBy(SubSeq(levels, 1, Len(levels) - 1), reverse), reverse)

\* bids.sort(key=lambda x: x.price, reverse=True)
SortBids(levels) == SortBy(levels, TRUE)

\* asks.sort(key=lambda x: x.price)
SortAsks(levels) == SortBy(levels, FALSE)

\* int(timestamp or 0)
TimestampOr0(t) == IF t = TsNone \/ t = 0 THEN 0 ELSE t

\* the empty dict, for which "not orderbook" holds
EmptyOb == [bids |-> <<>>, asks |-> <<>>, timestamp |-> TsNone]

BuildSnapshot_KeepsOldAsks(e, m, raw) ==
    LET bids == PositiveLevels(raw.bids)
        asks == PositiveLevels(raw.asks)
        old == DictGet(books, Key(e, m))
    IN IF raw = EmptyOb \/ bids = <<>> \/ asks = <<>> THEN <<>>
       ELSE <<OrderbookSnapshot(e, m, SortBids(bids),
                                IF old = <<>> THEN SortAsks(asks) ELSE old[1].asks,
                                TimestampOr0(raw.timestamp))>>

BuildSnapshot_RejectsOnlyBothEmpty(e, m, raw) ==
    LET bids == PositiveLevels(raw.bids)
        asks == PositiveLevels(raw.asks)
    IN IF raw = EmptyOb \/ (bids = <<>> /\ asks = <<>>) THEN <<>>
       ELSE <<OrderbookSnapshot(e, m, SortBids(bids), SortAsks(asks),
                                TimestampOr0(raw.timestamp))>>

\* OrderbookCache.update, lines 72-104 (the same statements as update_snapshot,
\* lines 36-67): <<>> when the call returns early, else the snapshot it builds
BuildSnapshot(e, m, raw) ==
    LET bids == PositiveLevels(raw.bids)
        asks == PositiveLevels(raw.asks)
    IN IF raw = EmptyOb \/ bids = <<>> \/ asks = <<>> THEN <<>>
       ELSE <<OrderbookSnapshot(e, m, SortBids(bids), SortAsks(asks),
                                TimestampOr0(raw.timestamp))>>

\* the single-level publication the callers of update_snapshot(snapshot) expect:
\* the snapshot replaces the entry under the composite key
PublishSnapshot(d, snap) == DictSet(d, Key(snap.exchange, snap.market), snap)

--------------------------------------------------------------------------
(* OrderbookCache: inputs *)

Exchange == "e1"
Exchanges == {"e1", "e2"}
Markets == {"USD-X", "USD-Y"}

Book(b, a, t) == [bids |-> b, asks |-> a, timestamp |-> t]

\* the books a feed delivers: unsorted sides, non-positive levels and a repeated
\* price, a side that filters to nothing, a missing side, a missing timestamp,
\* the empty dict; no two of them share a side or a timestamp
RawBooks ==
    { Book(<<<<1, 1>>, <<2, 1>>>>, <<<<5, 1>>, <<4, 1>>>>, 10),
      Book(<<<<3, 1>>, <<0, 1>>, <<3, 3>>>>, <<<<7, 0>>, <<7, 1>>>>, 30),
      Book(<<<<2, 2>>>>, <<<<8, 0>>>>, 40),
      Book(<<>>, <<<<9, 1>>>>, 50),
      Book(<<<<1, 3>>>>, <<<<9, 3>>>>, TsNone),
      EmptyOb }

\* "BASE/QUOTE", the symbol a watcher is started with
Symbol(b, q) == b \o "/" \o q
WsSymbols == {Symbol("X", "USD"), Symbol("Y", "USD"), "XUSD"}

\* symbol.split("/") unpacked into base, quote; <<>> when that raises
SplitSymbol(sym) ==
    IF \E b \in {"X", "Y"} : sym = Symbol(b, "USD")
        THEN <<CHOOSE b \in {"X", "Y"} : sym = Symbol(b, "USD"), "USD">>
        ELSE <<>>

\* market_code = f"{quote}-{base}"
WsMarketCode(sym) == SplitSymbol(sym)[2] \o "-" \o SplitSymbol(sym)[1]

MaxErrors == 10

\* the market arguments of the readers: plain and exchange-prefixed codes
MarketArgs == Markets \cup {Prefixed(Exchange, m) : m \in Markets}

\* market.split("::", 1)[1] when "::" in market
StripPrefix(market) ==
    IF market \in Markets THEN market
    ELSE CHOOSE m \in Markets : \E e \in Exchanges : market = Prefixed(e, m)

MarketLists == Listings(Markets)

--------------------------------------------------------------------------
(* PathEvaluator *)

\* edge.fee_rate is kept in units of 1e-4, edge.min_total in whole units
FeeOf(edge) == Q(edge.fee_rate, 10000)
MinTotalOf(edge) == Q(edge.min_total, 1)

\* mapping.get(key): <<>> for None, <<value>> otherwise
MapGet(f, k) == IF k \in DOMAIN f THEN <<f[k]>> ELSE <<>>

LegResult(market_code, side, notional_quote, effective_price, input_amount, output_amount, fee_rate, depth_used) ==
    [market_code |-> market_code, side |-> side, notional_quote |-> notional_quote,
     effective_price |-> effective_price, input_amount |-> input_amount,
     output_amount |-> output_amount, fee_rate |-> fee_rate, depth_used |-> depth_used]

\* what _simulate_buy / _simulate_sell hand back: (None, reason, 0.0),
\* (result, None, slippage_penalty), or an AssertionError
NoLeg(reason) == [kind |-> "none", leg |-> <<>>, reason |-> reason, slip |-> Zero]
Leg(result, slip) == [kind |-> "leg", leg |-> <<result>>, reason |-> "", slip |-> slip]
LegRaised == [kind |-> "raised", leg |-> <<>>, reason |-> "", slip |-> Zero]

\* lines 301-310 without the test of the best prices
_validate_snapshot_SidesOnly(snapshot) == snapshot.bids # <<>> /\ snapshot.asks # <<>>

\* lines 301-310
_validate_snapshot(snapshot) ==
    IF snapshot.bids = <<>> \/ snapshot.asks = <<>> THEN FALSE
    ELSE LET best_bid == snapshot.bids[1].price
             best_ask == snapshot.asks[1].price
         IN ~(LessEq(best_bid, Zero) \/ LessEq(best_ask, Zero))

\* lines 288-299
_has_input_for_leg(c, amount_available, edge, snapshot) ==
    LET required == Times(MinTotalOf(edge), c.min_notional_multiplier)
    IN IF LessEq(required, Zero) THEN TRUE
       ELSE IF edge.side = "buy" THEN LessEq(required, amount_available)
       ELSE LET best_bid == IF snapshot.bids # <<>> THEN snapshot.bids[1].price ELSE Zero
            IN IF LessEq(best_bid, Zero) THEN FALSE
               ELSE LessEq(required, Times(amount_available, best_bid))

_buy_slippage_Signed(snapshot, effective_price) ==
    LET best_ask == IF snapshot.asks # <<>> THEN snapshot.asks[1].price ELSE Zero
    IN IF LessEq(best_ask, Zero) THEN Zero
       ELSE Over(Minus(effective_price, best_ask), best_ask)

\* lines 319-323
_buy_slippage(snapshot, effective_price) ==
    LET best_ask == IF snapshot.asks # <<>> THEN snapshot.asks[1].price ELSE Zero
    IN IF LessEq(best_ask, Zero) THEN Zero
       ELSE Max(Zero, Over(Minus(effective_price, best_ask), best_ask))

\* lines 325-329
_sell_slippage(snapshot, effective_price) ==
    LET best_bid == IF snapshot.bids # <<>> THEN snapshot.bids[1].price ELSE Zero
    IN IF LessEq(best_bid, Zero) THEN Zero
       ELSE Max(Zero, Over(Minus(best_bid, effective_price), best_bid))

SizePartial_Nothing(remaining, price) == Zero

\* line 194: size_partial = remaining / price
SizePartial(remaining, price) == Over(remaining, price)

\* the loop of _simulate_buy, lines 181-199, from level i on; w holds remaining,
\* acquired, spent, depth_used and whether the assert of line 184 failed
RECURSIVE BuyWalk(_, _, _)
BuyWalk(asks, i, w) ==
    IF i > Len(asks) THEN w
    ELSE LET price == asks[i].price
             size == asks[i].size
             cost == Times(price, size)
         IN IF ~Less(Zero, price) THEN [w EXCEPT !.raised = TRUE]
            ELSE IF LessEq(size, Zero) THEN BuyWalk(asks, i + 1, w)
            ELSE IF LessEq(cost, w.remaining)
                 THEN BuyWalk(asks, i + 1,
                              [w EXCEPT !.acquired = Plus(@, size),
                                        !.spent = Plus(@, cost),
                                        !.depth_used = Append(@, <<price, size>>),
                                        !.remaining = Minus(@, cost)])
            ELSE LET size_partial == SizePartial(w.remaining, price)
                 IN [w EXCEPT !.acquired = Plus(@, size_partial),
                              !.spent = Plus(@, w.remaining),
                              !.depth_used = Append(@, <<price, size_partial>>),
                              !.remaining = Zero]

BuyDepthShort_NoTolerance(w) == Less(Zero, w.remaining) \/ LessEq(w.acquired, Zero)

\* line 200: remaining > 1e-9 or acquired <= 0
BuyDepthShort(w) == AboveEpsilon(w.remaining) \/ LessEq(w.acquired, Zero)

\* lines 215-229: the leg and its penalty
BuyLeg(edge, snapshot, quote_amount, w, fee_rate, effective_price) ==
    Leg(LegResult(edge.market_code, "buy", w.spent, effective_price,
                  quote_amount, w.acquired, fee_rate, w.depth_used),
        _buy_slippage(snapshot, effective_price))

\* lines 200-229, w being the locals the loop leaves
BuyAfterWalk(edge, snapshot, quote_amount, min_quote_required, w) ==
    IF w.raised THEN LegRaised
    ELSE IF BuyDepthShort(w) THEN NoLeg("insufficient ask depth")
    ELSE IF Less(w.spent, min_quote_required) THEN NoLeg("notional below minimum")
    ELSE IF LessEq(Over(w.spent, w.acquired), Zero) THEN NoLeg("invalid VWAP")
    ELSE BuyLeg(edge, snapshot, quote_amount, w, FeeOf(edge),
                Times(Over(w.spent, w.acquired), Plus(One, FeeOf(edge))))

\* lines 169-229
_simulate_buy(edge, snapshot, quote_amount, min_quote_required) ==
    BuyAfterWalk(edge, snapshot, quote_amount, min_quote_required,
                 BuyWalk(snapshot.asks, 1,
                         [remaining |-> quote_amount, acquired |-> Zero, spent |-> Zero,
                          depth_used |-> <<>>, raised |-> FALSE]))

\* the loop of _simulate_sell, lines 242-256, from level i on
RECURSIVE SellWalk(_, _, _)
SellWalk(bids, i, w) ==
    IF i > Len(bids) THEN w
    ELSE LET price == bids[i].price
             size == bids[i].size
         IN IF ~Less(Zero, price) THEN [w EXCEPT !.raised = TRUE]
            ELSE IF LessEq(size, Zero) THEN SellWalk(bids, i + 1, w)
            ELSE IF LessEq(size, w.remaining)
                 THEN SellWalk(bids, i + 1,
                               [w EXCEPT !.proceeds = Plus(@, Times(price, size)),
                                         !.depth_used = Append(@, <<price, size>>),
                                         !.remaining = Minus(@, size)])
            ELSE [w EXCEPT !.proceeds = Plus(@, Times(price, w.remaining)),
                           !.depth_used = Append(@, <<price, w.remaining>>),
                           !.remaining = Zero]

\* lines 272-286: the leg and its penalty
SellLeg(edge, snapshot, base_amount, w, fee_rate, effective_price) ==
    Leg(LegResult(edge.market_code, "sell", w.proceeds, effective_price,
                  base_amount, w.proceeds, fee_rate, w.depth_used),
        _sell_slippage(snapshot, effective_price))

\* lines 262-286, vwap being proceeds / base_amount
SellPriced(edge, snapshot, base_amount, w, vwap) ==
    IF LessEq(vwap, Zero) THEN NoLeg("invalid VWAP")
    ELSE SellLeg(edge, snapshot, base_amount, w, FeeOf(edge),
                 Times(vwap, Minus(One, FeeOf(edge))))

\* lines 257-286, w being the locals the loop leaves
SellAfterWalk(edge, snapshot, base_amount, min_quote_required, w) ==
    IF w.raised THEN LegRaised
    ELSE IF AboveEpsilon(w.remaining) THEN NoLeg("insufficient bid depth")
    ELSE IF Less(w.proceeds, min_quote_required) THEN NoLeg("notional below minimum")
    ELSE SellPriced(edge, snapshot, base_amount, w,
                    IF Less(Zero, base_amount) THEN Over(w.proceeds, base_amount) ELSE Zero)

\* lines 231-286
_simulate_sell(edge, snapshot, base_amount, min_quote_required) ==
    SellAfterWalk(edge, snapshot, base_amount, min_quote_required,
                  SellWalk(snapshot.bids, 1,
                           [remaining |-> base_amount, proceeds |-> Zero,
                            depth_used |-> <<>>, raised |-> FALSE]))

\* the asset _compute_vol_penalty leaves out, line 313
VolAnchor == "USD"

\* the largest element of a non-empty sequence of numbers
RECURSIVE MaxOf(_)
MaxOf(xs) == IF Len(xs) = 1 THEN xs[1] ELSE Max(xs[1], MaxOf(Tail(xs)))

\* lines 312-317 with no asset left out
_compute_vol_penalty_AnchorIncluded(c, assets, sigma_by_asset) ==
    IF assets = <<>> THEN Zero
    ELSE Times(c.vol_risk_multiplier,
               MaxOf([i \in 1..Len(assets) |->
                         IF assets[i] \in DOMAIN sigma_by_asset
                            THEN sigma_by_asset[assets[i]] ELSE Zero]))

\* lines 312-317
_compute_vol_penalty(c, assets, sigma_by_asset) ==
    LET relevant == SelectSeq(assets, LAMBDA asset : asset # VolAnchor)
    IN IF relevant = <<>> THEN Zero
       ELSE Times(c.vol_risk_multiplier,
                  MaxOf([i \in 1..Len(relevant) |->
                            IF relevant[i] \in DOMAIN sigma_by_asset
                               THEN sigma_by_asset[relevant[i]] ELSE Zero]))

\* lines 331-338
RECURSIVE _extra_edge_requirement(_, _)
_extra_edge_requirement(c, assets) ==
    IF assets = <<>> THEN Zero
    ELSE LET n == Len(assets)
             extra == _extra_edge_requirement(c, SubSeq(assets, 1, n - 1))
             token == MapGet(c.tokens, assets[n])
         IN IF token = <<>> THEN extra ELSE Max(extra, token[1].extra_edge_required)

\* lines 340-351 with depth=5: the top of each book of the path that is present
_capture_books(edges, snapshots) ==
    {<<edges[i].market_code,
       SubSeq(snapshots[edges[i].market_code].bids, 1,
              IF Len(snapshots[edges[i].market_code].bids) < 5
                 THEN Len(snapshots[edges[i].market_code].bids) ELSE 5),
       SubSeq(snapshots[edges[i].market_code].asks, 1,
              IF Len(snapshots[edges[i].market_code].asks) < 5
                 THEN Len(snapshots[edges[i].market_code].asks) ELSE 5)>> :
        i \in {j \in 1..Len(edges) : edges[j].market_code \in DOMAIN snapshots}}

\* lines 353-379
_build_debug(path_id, assets, starting, final, legs, reason, delta_inst, delta_vol, delta_slip, orderbooks) ==
    [path_id |-> path_id, assets |-> assets, starting_amount |-> starting,
     final_amount |-> final, delta_inst |-> delta_inst, delta_vol |-> delta_vol,
     delta_slip |-> delta_slip,
     delta_final |-> Minus(Minus(delta_inst, delta_vol), delta_slip),
     reason |-> reason, legs |-> legs, orderbooks |-> orderbooks]

\* what evaluate hands back: the pair (evaluation, debug_info), each <<>> for
\* None, or the exception it raises; legs and reason are the locals of the call
\* at that point
Returned(evaluation, debug_info, legs, reason) ==
    [raised |-> "", evaluation |-> evaluation, debug |-> debug_info,
     legs |-> legs, reason |-> reason]
Raised(exception, legs) ==
    [raised |-> exception, evaluation |-> <<>>, debug |-> <<>>, legs |-> legs, reason |-> ""]

\* lines 381-406 with the debug record left out
_fail_NoDebug(path_id, assets, starting_notional, current_amount, legs, reason, orderbook_views, debug) ==
    Returned(<<>>, <<>>, legs, reason)

\* lines 381-406
_fail(path_id, assets, starting_notional, current_amount, legs, reason, orderbook_views, debug) ==
    Returned(<<>>,
             IF ~debug THEN <<>>
             ELSE <<_build_debug(path_id, assets, starting_notional, current_amount, legs,
                                 reason, Zero, Zero, Zero, orderbook_views)>>,
             legs, reason)

\* the guards of lines 93-102 and of lines 125-134 on one edge: the reason of
\* the first that fails, "" when all pass
SnapshotGuards(c, snapshots, edge, amount, input_reason) ==
    LET snapshot == MapGet(snapshots, edge.market_code)
    IN IF snapshot = <<>> THEN "missing snapshot for " \o edge.market_code
       ELSE IF ~_validate_snapshot(snapshot[1]) THEN "invalid snapshot for " \o edge.market_code
       ELSE IF ~_has_input_for_leg(c, amount, edge, snapshot[1])
            THEN input_reason \o edge.market_code
       ELSE ""

\* the loop of evaluate, lines 87-134, from leg idx on (idx counts from 1);
\* st holds current_amount, legs, total_slippage, and the reason or exception
\* that ended the loop
RECURSIVE LegLoop(_, _, _, _, _)

\* lines 122-134: the guards on the next edge, then the next turn of the loop
NextLeg(c, edges, snapshots, idx, st, next_guard) ==
    IF next_guard # "" THEN [st EXCEPT !.reason = next_guard]
    ELSE LegLoop(c, edges, snapshots, idx + 1, st)

\* lines 116-134, result being the leg that was simulated and leg_slip its penalty
LegDone(c, edges, snapshots, idx, st, result, leg_slip) ==
    IF LessEq(result.output_amount, Zero)
        THEN [st EXCEPT !.legs = Append(@, result),
                        !.current_amount = result.output_amount,
                        !.reason = "non-positive output after " \o edges[idx].market_code]
    ELSE NextLeg(c, edges, snapshots, idx,
                 [st EXCEPT !.legs = Append(@, result),
                            !.current_amount = result.output_amount,
                            !.total_slippage = Plus(@, leg_slip)],
                 IF idx + 1 <= Len(edges)
                    THEN SnapshotGuards(c, snapshots, edges[idx + 1], result.output_amount,
                                        "insufficient size for next leg ")
                    ELSE "")

\* lines 112-134, sim being what _simulate_buy or _simulate_sell handed back
LegSimulated(c, edges, snapshots, idx, st, sim) ==
    IF sim.kind = "raised" THEN [st EXCEPT !.raised = "AssertionError"]
    ELSE IF sim.kind = "none" THEN [st EXCEPT !.reason = sim.reason]
    ELSE LegDone(c, edges, snapshots, idx, st, sim.leg[1], sim.slip)

\* lines 104-134, the guards of the edge having passed
LegGuarded(c, edges, snapshots, idx, st, edge, snapshot, min_quote_required) ==
    LegSimulated(c, edges, snapshots, idx, st,
                 IF edge.side = "buy"
                    THEN _simulate_buy(edge, snapshot, st.current_amount, min_quote_required)
                    ELSE _simulate_sell(edge, snapshot, st.current_amount, min_quote_required))

\* lines 93-134 with a failed guard skipping the edge instead of returning
LegChecked_SkipsLeg(c, edges, snapshots, idx, st, guard) ==
    IF guard # "" THEN LegLoop(c, edges, snapshots, idx + 1, st)
    ELSE LegGuarded(c, edges, snapshots, idx, st, edges[idx],
                    snapshots[edges[idx].market_code],
                    Times(MinTotalOf(edges[idx]),
                          IF idx = 1 THEN c.first_leg_multiplier ELSE c.min_notional_multiplier))

\* lines 93-134 with no minimum handed to the simulation
LegChecked_NoMinimum(c, edges, snapshots, idx, st, guard) ==
    IF guard # "" THEN [st EXCEPT !.reason = guard]
    ELSE LegGuarded(c, edges, snapshots, idx, st, edges[idx],
                    snapshots[edges[idx].market_code], Zero)

\* lines 93-134, guard being the reason of the guard of the edge that failed
LegChecked(c, edges, snapshots, idx, st, guard) ==
    IF guard # "" THEN [st EXCEPT !.reason = guard]
    ELSE LegGuarded(c, edges, snapshots, idx, st, edges[idx],
                    snapshots[edges[idx].market_code],
                    Times(MinTotalOf(edges[idx]),
                          IF idx = 1 THEN c.first_leg_multiplier ELSE c.min_notional_multiplier))

LegLoop(c, edges, snapshots, idx, st) ==
    IF idx > Len(edges) THEN st
    ELSE IF LessEq(st.current_amount, Zero)
        THEN [st EXCEPT !.reason = "Leg received zero notional"]
    ELSE LegChecked(c, edges, snapshots, idx, st,
                    SnapshotGuards(c, snapshots, edges[idx], st.current_amount,
                                   "input below minimum for "))

BelowFirstLegMinimum_Inclusive(starting_notional, required_first_leg) ==
    LessEq(starting_notional, required_first_leg)

\* line 81
BelowFirstLegMinimum(starting_notional, required_first_leg) ==
    Less(starting_notional, required_first_leg)

BelowThreshold_Exclusive(delta_final, min_profit) == Less(delta_final, min_profit)

\* line 165: delta_final <= min_profit
BelowThreshold(delta_final, min_profit) == LessEq(delta_final, min_profit)

\* lines 141-167: the evaluation, the debug record and what is returned
Decide(path_id, assets, starting_notional, debug, orderbook_views, st, delta_inst, delta_vol, min_profit, delta_final) ==
    Returned(IF BelowThreshold(delta_final, min_profit) THEN <<>>
             ELSE <<[path_id |-> path_id, starting_amount |-> starting_notional,
                     final_amount |-> st.current_amount, delta_inst |-> delta_inst,
                     delta_vol |-> delta_vol, delta_slip |-> st.total_slippage,
                     delta_final |-> delta_final, legs |-> st.legs]>>,
             IF debug
                THEN <<_build_debug(path_id, assets, starting_notional, st.current_amount,
                                    st.legs, "evaluated", delta_inst, delta_vol,
                                    st.total_slippage, orderbook_views)>>
                ELSE <<>>,
             st.legs, "")

\* lines 136-167, the loop having passed every leg
Score(c, path_id, assets, starting_notional, debug, orderbook_views, st, delta_inst, delta_vol) ==
    Decide(path_id, assets, starting_notional, debug, orderbook_views, st, delta_inst, delta_vol,
           Plus(c.min_profit_margin, _extra_edge_requirement(c, assets)),
           Minus(Minus(delta_inst, delta_vol), st.total_slippage))

\* lines 87-167, st being the locals the loop leaves
AfterLoop(c, path_id, assets, starting_notional, sigma_by_asset, debug, orderbook_views, st) ==
    IF st.raised # "" THEN Raised(st.raised, st.legs)
    ELSE IF st.reason # ""
        THEN _fail(path_id, assets, starting_notional, st.current_amount, st.legs, st.reason,
                   orderbook_views, debug)
    ELSE IF starting_notional = Zero THEN Raised("ZeroDivisionError", st.legs)
    ELSE Score(c, path_id, assets, starting_notional, debug, orderbook_views, st,
               Minus(Over(st.current_amount, starting_notional), One),
               _compute_vol_penalty(c, assets, sigma_by_asset))

\* lines 75-167, orderbook_views being the books captured for the debug record
Walk(c, path_id, edges, assets, starting_notional, snapshots, sigma_by_asset, debug, orderbook_views) ==
    IF /\ edges # <<>>
       /\ BelowFirstLegMinimum(starting_notional,
                               Times(MinTotalOf(edges[1]), c.first_leg_multiplier))
        THEN _fail(path_id, assets, starting_notional, starting_notional, <<>>,
                   "starting notional below first leg minimum", orderbook_views, debug)
    ELSE AfterLoop(c, path_id, assets, starting_notional, sigma_by_asset, debug, orderbook_views,
                   LegLoop(c, edges, snapshots, 1,
                           [current_amount |-> starting_notional, legs |-> <<>>,
                            total_slippage |-> Zero, reason |-> "", raised |-> ""]))

\* lines 61-167; reasons are modelled without the amounts formatted into them
evaluate(c, path_id, edges, assets, starting_notional, snapshots, sigma_by_asset, debug) ==
    Walk(c, path_id, edges, assets, starting_notional, snapshots, sigma_by_asset, debug,
         IF debug THEN _capture_books(edges, snapshots) ELSE {})

--------------------------------------------------------------------------
(* OrderbookCache: state machine *)

\* no evaluate call has been made
NoEval == [called |-> FALSE]

\* no VolatilityCache has been constructed
NoVol == [made |-> FALSE]

\* the parts of the system outside the specification at hand
SysIdle == vol = NoVol /\ scan = [made |-> FALSE] /\ mgr = [kind |-> "none"]

NoRead == [op |-> "none", pc |-> "idle", exchange |-> "", market |-> "", markets |-> <<>>,
           i |-> 0, result |-> {}, fresh |-> FALSE]

NoUpdate == [via |-> "none", key |-> "", outcome |-> "none", snap |-> <<>>]

\* the cache right after OrderbookCache.__init__, no task started
CacheIdle ==
    /\ single_exchange = ""
    /\ books = <<>>
    /\ lock = NoOwner
    /\ rd = NoRead
    /\ ws = [symbol |-> "", error_count |-> 0, state |-> "off"]
    /\ stop_event = FALSE
    /\ last_update = NoUpdate

InitCache ==
    /\ single_exchange \in {"", Exchange}
    /\ books = <<>>
    /\ lock = NoOwner
    /\ rd = NoRead
    /\ ws \in {[symbol |-> sym, error_count |-> 0, state |-> "start"] : sym \in WsSymbols}
    /\ stop_event = FALSE
    /\ last_update = NoUpdate
    /\ cfg = [markets |-> <<>>, min_order |-> NoMinOrder, tokens |-> <<>>,
              paths |-> [min_length |-> 1, max_length |-> 1, allow_revisit_nodes |-> FALSE]]
    /\ paths = <<>>
    /\ built = FALSE
    /\ paths_again = <<>>
    /\ ev = NoEval
    /\ SysIdle

Stale == [rd EXCEPT !.fresh = FALSE]

\* OrderbookCache.update as the source runs it: line 106 calls the three-argument
\* update_snapshot of line 35 with one argument, which raises TypeError before
\* anything is stored
Update(e, m, raw) ==
    LET s == BuildSnapshot(e, m, raw) IN
    /\ last_update' = [via |-> "update", key |-> Key(e, m),
                       outcome |-> IF s = <<>> THEN "noop" ELSE "TypeError", snap |-> s]
    /\ rd' = Stale
    /\ UNCHANGED <<single_exchange, books, lock, ws, stop_event, pathVars, evalVars, sysVars>>

\* OrderbookCache.update_snapshot(exchange, market, orderbook): line 68 calls
\* itself with one argument, which raises TypeError
UpdateSnapshot(e, m, raw) ==
    LET s == BuildSnapshot(e, m, raw) IN
    /\ last_update' = [via |-> "update_snapshot", key |-> Key(e, m),
                       outcome |-> IF s = <<>> THEN "noop" ELSE "TypeError", snap |-> s]
    /\ rd' = Stale
    /\ UNCHANGED <<single_exchange, books, lock, ws, stop_event, pathVars, evalVars, sysVars>>

\* OrderbookCache.update with update_snapshot(snapshot) publishing the snapshot
UpdatePub(e, m, raw) ==
    LET s == BuildSnapshot(e, m, raw) IN
    /\ s # <<>> => lock = NoOwner
    /\ books' = IF s = <<>> THEN books ELSE PublishSnapshot(books, s[1])
    /\ last_update' = [via |-> "update", key |-> Key(e, m),
                       outcome |-> IF s = <<>> THEN "noop" ELSE "published", snap |-> s]
    /\ rd' = Stale
    /\ UNCHANGED <<single_exchange, lock, ws, stop_event, pathVars, evalVars, sysVars>>

\* lines 99-104: the symbol is split before the loop starts
WsStart ==
    /\ ws.state = "start"
    /\ ws' = [ws EXCEPT !.state = IF SplitSymbol(ws.symbol) = <<>> THEN "returned" ELSE "watching"]
    /\ UNCHANGED <<single_exchange, books, lock, rd, stop_event, last_update, pathVars, evalVars, sysVars>>

\* line 110 without the bound on the errors
WsLoopGuard_Unbounded == ~stop_event

\* line 110: while not stop_event.is_set() and error_count < max_errors
WsLoopGuard == ~stop_event /\ ws.error_count < MaxErrors

\* line 114: the book is skipped (sleep, continue)
WsSkips(raw) == raw = EmptyOb \/ raw.bids = <<>> \/ raw.asks = <<>>

\* lines 118-133: the snapshot the watcher builds, levels and order as received;
\* <<>> when int(orderbook.get('timestamp', 0)) raises on a None timestamp
WsSnapshot(e, sym, raw) ==
    IF raw.timestamp = TsNone THEN <<>>
    ELSE <<OrderbookSnapshot(e, WsMarketCode(sym), AllLevels(raw.bids), AllLevels(raw.asks),
                             raw.timestamp)>>

\* one loop iteration on a received book, as the source runs it: line 135 calls
\* the three-argument update_snapshot with one argument, the TypeError is caught
\* at line 149
WsWatch(raw) ==
    /\ ws.state = "watching"
    /\ WsLoopGuard
    /\ LET s == WsSnapshot(Exchange, ws.symbol, raw) IN
        /\ ws' = IF WsSkips(raw) THEN ws ELSE [ws EXCEPT !.error_count = @ + 1]
        /\ last_update' = [via |-> "ws", key |-> Key(Exchange, WsMarketCode(ws.symbol)),
                           outcome |-> IF WsSkips(raw) THEN "skipped" ELSE "TypeError",
                           snap |-> IF WsSkips(raw) THEN <<>> ELSE s]
    /\ rd' = Stale
    /\ UNCHANGED <<single_exchange, books, lock, stop_event, pathVars, evalVars, sysVars>>

\* one loop iteration with update_snapshot(snapshot) publishing the snapshot
WsWatchPub(raw) ==
    /\ ws.state = "watching"
    /\ WsLoopGuard
    /\ LET s == WsSnapshot(Exchange, ws.symbol, raw)
           publishes == ~WsSkips(raw) /\ s # <<>>
       IN
        /\ publishes => lock = NoOwner
        /\ books' = IF publishes THEN PublishSnapshot(books, s[1]) ELSE books
        /\ ws' = IF WsSkips(raw) THEN ws
                 ELSE IF s = <<>> THEN [ws EXCEPT !.error_count = @ + 1]
                 ELSE [ws EXCEPT !.error_count = 0]
        /\ last_update' = [via |-> "ws", key |-> Key(Exchange, WsMarketCode(ws.symbol)),
                           outcome |-> IF WsSkips(raw) THEN "skipped"
                                       ELSE IF s = <<>> THEN "TypeError" ELSE "published",
                           snap |-> IF WsSkips(raw) THEN <<>> ELSE s]
    /\ rd' = Stale
    /\ UNCHANGED <<single_exchange, lock, stop_event, pathVars, evalVars, sysVars>>

\* lines 149-155: watch_order_book raises
WsFeedError ==
    /\ ws.state = "watching"
    /\ WsLoopGuard
    /\ ws' = [ws EXCEPT !.error_count = @ + 1]
    /\ UNCHANGED <<single_exchange, books, lock, rd, stop_event, last_update, pathVars, evalVars, sysVars>>

\* lines 146-148: the task is cancelled while it waits
WsCancelled ==
    /\ ws.state = "watching"
    /\ WsLoopGuard
    /\ ws' = [ws EXCEPT !.state = "cancelled"]
    /\ UNCHANGED <<single_exchange, books, lock, rd, stop_event, last_update, pathVars, evalVars, sysVars>>

\* lines 110, 157-160: the loop condition fails
WsExit ==
    /\ ws.state = "watching"
    /\ ~WsLoopGuard
    /\ ws' = [ws EXCEPT !.state = "stopped"]
    /\ UNCHANGED <<single_exchange, books, lock, rd, stop_event, last_update, pathVars, evalVars, sysVars>>

\* the owner of the stop event sets it
SetStop ==
    /\ ~stop_event
    /\ stop_event' = TRUE
    /\ UNCHANGED <<single_exchange, books, lock, rd, ws, last_update, pathVars, evalVars, sysVars>>

\* what a read returns: nothing, or the snapshot under the market asked for
AsResult(m, found) == IF found = <<>> THEN {} ELSE {<<m, found[1]>>}

\* OrderbookCache.get_snapshot
GetSnapshot(e, m) ==
    /\ rd.pc # "reading"
    /\ lock = NoOwner
    /\ rd' = [op |-> "get_snapshot", pc |-> "done", exchange |-> e, market |-> m,
              markets |-> <<>>, i |-> 0,
              result |-> AsResult(m, DictGet(books, Key(e, m))), fresh |-> TRUE]
    /\ UNCHANGED <<single_exchange, books, lock, ws, stop_event, last_update, pathVars, evalVars, sysVars>>

\* the body of OrderbookCache.snapshot, lines 115-123
SnapshotLookup(d, single, market) ==
    IF single # "" THEN DictGet(d, StripPrefix(market))
    ELSE IF \E i \in 1..Len(d) : d[i][2].market = market
        THEN <<d[CHOOSE i \in 1..Len(d) :
                    /\ d[i][2].market = market
                    /\ \A j \in 1..(i - 1) : d[j][2].market # market][2]>>
        ELSE <<>>

\* OrderbookCache.snapshot
Snapshot(m) ==
    /\ rd.pc # "reading"
    /\ lock = NoOwner
    /\ rd' = [op |-> "snapshot", pc |-> "done", exchange |-> "", market |-> m,
              markets |-> <<>>, i |-> 0,
              result |-> AsResult(m, SnapshotLookup(books, single_exchange, m)), fresh |-> TRUE]
    /\ UNCHANGED <<single_exchange, books, lock, ws, stop_event, last_update, pathVars, evalVars, sysVars>>

ReaderEnter_NoLock(task) == NoOwner

\* "async with self._lock" in snapshot_many, line 130: the lock is the reader's
\* for the whole comprehension
ReaderEnter(task) == task

\* OrderbookCache.snapshot_many: the lock is taken
SnapshotManyBegin(e, ms) ==
    /\ rd.pc # "reading"
    /\ lock = NoOwner
    /\ lock' = ReaderEnter(Reader)
    /\ rd' = [op |-> "snapshot_many", pc |-> "reading", exchange |-> e, market |-> "",
              markets |-> ms, i |-> 1, result |-> {}, fresh |-> FALSE]
    /\ UNCHANGED <<single_exchange, books, ws, stop_event, last_update, pathVars, evalVars, sysVars>>

\* m: self._books[key] for the next m, if key in self._books (a dict entry replaces
\* an earlier one for the same m)
SnapshotManyRead ==
    /\ rd.pc = "reading"
    /\ rd.i <= Len(rd.markets)
    /\ LET m == rd.markets[rd.i]
           found == DictGet(books, Key(rd.exchange, m))
       IN rd' = [rd EXCEPT !.i = @ + 1,
                           !.result = {r \in @ : r[1] # m} \cup AsResult(m, found)]
    /\ UNCHANGED <<single_exchange, books, lock, ws, stop_event, last_update, pathVars, evalVars, sysVars>>

\* the comprehension is complete: the lock is released and the dict returned
SnapshotManyEnd ==
    /\ rd.pc = "reading"
    /\ rd.i > Len(rd.markets)
    /\ lock' = NoOwner
    /\ rd' = [rd EXCEPT !.pc = "done", !.fresh = TRUE]
    /\ UNCHANGED <<single_exchange, books, ws, stop_event, last_update, pathVars, evalVars, sysVars>>

Readers ==
    \/ \E e \in Exchanges, m \in Markets : GetSnapshot(e, m)
    \/ \E m \in MarketArgs : Snapshot(m)
    \/ \E ms \in MarketLists : SnapshotManyBegin(Exchange, ms)
    \/ SnapshotManyRead
    \/ SnapshotManyEnd

\* the cache, its callers and its readers as the source runs them
Next ==
    \/ \E m \in Markets, raw \in RawBooks : Update(Exchange, m, raw)
    \/ \E m \in Markets, raw \in RawBooks : UpdateSnapshot(Exchange, m, raw)
    \/ Readers

Spec == InitCache /\ [][Next]_vars

\* the WebSocket watcher as the source runs it
NextWatch ==
    \/ WsStart
    \/ \E raw \in RawBooks : WsWatch(raw)
    \/ WsFeedError
    \/ WsCancelled
    \/ WsExit
    \/ SetStop
    \/ \E m \in Markets : GetSnapshot(Exchange, m)

SpecWatch == InitCache /\ [][NextWatch]_vars

\* the books of a feed that stamps every book
StampedBooks == {b \in RawBooks : b = EmptyOb \/ b.timestamp # TsNone}

InitPub ==
    /\ InitCache
    /\ ws.symbol = Symbol("X", "USD")

\* the cache and its tasks with single-level publication
NextPub ==
    \/ \E m \in Markets, raw \in RawBooks : UpdatePub(Exchange, m, raw)
    \/ WsStart
    \/ \E raw \in StampedBooks : WsWatchPub(raw)
    \/ Readers

SpecPub == InitPub /\ [][NextPub]_vars

\* the watcher with single-level publication, its feed, its stop event and its
\* cancellation
NextFeed ==
    \/ WsStart
    \/ \E raw \in RawBooks : WsWatchPub(raw)
    \/ WsFeedError
    \/ WsCancelled
    \/ WsExit
    \/ SetStop

SpecFeed == InitPub /\ [][NextFeed]_vars

--------------------------------------------------------------------------
(* PathModel as a state machine: construction runs _build_paths once *)

InitPaths ==
    /\ cfg \in Configs
    /\ paths = <<>>
    /\ built = FALSE
    /\ paths_again = <<>>
    /\ ev = NoEval
    /\ SysIdle
    /\ CacheIdle

\* PathModel.__init__
BuildPaths ==
    /\ ~built
    /\ paths' = _build_paths(cfg)
    /\ built' = TRUE
    /\ UNCHANGED <<cfg, paths_again, cacheVars, evalVars, sysVars>>

\* a second PathModel(graph, config) over the same graph and config
Rebuild ==
    /\ built
    /\ paths_again = <<>>
    /\ paths_again' = <<_build_paths(cfg)>>
    /\ UNCHANGED <<cfg, paths, built, cacheVars, evalVars, sysVars>>

NextPaths == BuildPaths \/ Rebuild

SpecPaths == InitPaths /\ [][NextPaths]_vars

--------------------------------------------------------------------------
(* PathEvaluator: inputs *)

\* a MarketEdge as MarketGraph builds it, with its fee_rate (1e-4) and min_total
BuyOf(q, b, fee, min_total) ==
    [market_code |-> q \o "-" \o b, from_asset |-> q, to_asset |-> b, side |-> "buy",
     fee_rate |-> fee, min_total |-> min_total, is_reversed |-> FALSE, exchange |-> ""]

SellOf(q, b, fee, min_total) ==
    [market_code |-> q \o "-" \o b, from_asset |-> b, to_asset |-> q, side |-> "sell",
     fee_rate |-> fee, min_total |-> min_total, is_reversed |-> TRUE, exchange |-> ""]

PathOf(edges, assets) == [edges |-> edges, assets |-> assets]

\* the paths handed to evaluate: no edge at all, the two-leg cycle through X,
\* the three-leg cycle through X and Y, and the two-leg cycle rooted at X
EvalPaths(fee, mt) ==
    { PathOf(<<>>, <<"USD">>),
      PathOf(<<BuyOf("USD", "X", fee, mt), SellOf("USD", "X", fee, mt)>>, <<"USD", "X", "USD">>),
      PathOf(<<BuyOf("USD", "X", fee, mt), BuyOf("X", "Y", fee, mt), SellOf("USD", "Y", fee, mt)>>,
             <<"USD", "X", "Y", "USD">>),
      PathOf(<<SellOf("USD", "X", fee, mt), BuyOf("USD", "X", fee, mt)>>, <<"X", "USD", "X">>) }

EvalFees == {0, FeeRateE4}
EvalMinTotals == {0, DefaultMinTotal, 100}

\* a level with an integer price and the size sn/sd
Lv(p, sn, sd) == [price |-> Q(p, 1), size |-> Q(sn, sd)]

EvalBook(m, bids, asks) == OrderbookSnapshot("", m, bids, asks, 0)

\* one unit a side at price 1
UnitBook == EvalBook("USD-X", <<Lv(1, 1, 1)>>, <<Lv(1, 1, 1)>>)

\* the books of market USD-X: S1 (no spread), S2 (crossed by 1%), S3 (half a
\* unit of asks), S4 (half-spread 0.001 around 1000), a unit book at price 1,
\* two levels a side, two levels a side with the worse price first (as the
\* watcher stores what it receives), only empty-size asks, a non-positive price below the top,
\* a non-positive price at the top, an empty side, bids that thin out below a
\* top that matches the asks
BooksX ==
    { EvalBook("USD-X", <<Lv(100, 1, 1)>>, <<Lv(100, 1, 1)>>),
      EvalBook("USD-X", <<Lv(101, 10, 1)>>, <<Lv(100, 10, 1)>>),
      EvalBook("USD-X", <<Lv(100, 1, 1)>>, <<Lv(100, 1, 2)>>),
      EvalBook("USD-X", <<Lv(999, 10, 1)>>, <<Lv(1001, 10, 1)>>),
      UnitBook,
      EvalBook("USD-X", <<Lv(100, 1, 2), Lv(98, 2, 1)>>, <<Lv(100, 1, 2), Lv(102, 2, 1)>>),
      EvalBook("USD-X", <<Lv(98, 1, 4), Lv(100, 2, 1)>>, <<Lv(102, 1, 4), Lv(100, 2, 1)>>),
      EvalBook("USD-X", <<Lv(100, 1, 1)>>, <<Lv(100, 0, 1)>>),
      EvalBook("USD-X", <<Lv(100, 1, 2), Lv(0, 1, 1)>>, <<Lv(100, 1, 2), Lv(0, 1, 1)>>),
      EvalBook("USD-X", <<Lv(0, 1, 1)>>, <<Lv(100, 1, 1)>>),
      EvalBook("USD-X", <<>>, <<Lv(100, 1, 1)>>),
      EvalBook("USD-X", <<Lv(100, 1, 2), Lv(98, 2, 1)>>, <<Lv(100, 10, 1)>>) }

BookXY == EvalBook("X-Y", <<Lv(2, 10, 1)>>, <<Lv(2, 10, 1)>>)
BookY == EvalBook("USD-Y", <<Lv(210, 10, 1)>>, <<Lv(212, 10, 1)>>)

\* the snapshots argument: every market, USD-X missing, or USD-Y missing
SnapshotMaps ==
    {[m \in {"USD-X", "X-Y", "USD-Y"} |->
        IF m = "USD-X" THEN bx ELSE IF m = "X-Y" THEN BookXY ELSE BookY] : bx \in BooksX}
    \cup {[m \in {"X-Y", "USD-Y"} |-> IF m = "X-Y" THEN BookXY ELSE BookY]}
    \cup {[m \in {"USD-X", "X-Y"} |->
            IF m = "USD-X" THEN EvalBook("USD-X", <<Lv(101, 10, 1)>>, <<Lv(100, 10, 1)>>)
            ELSE BookXY]}

\* the part of Config the evaluator reads
EvalConfig(first, safety, margin, tokens) ==
    [first_leg_multiplier |-> first, min_notional_multiplier |-> safety,
     min_profit_margin |-> margin, vol_risk_multiplier |-> Q(1, 2), tokens |-> tokens]

\* config.tokens as the evaluator reads it: none, or an extra edge on X and Y
ExtraEdges ==
    { [a \in {} |-> [extra_edge_required |-> Zero]],
      [a \in {"X", "Y"} |-> [extra_edge_required |-> IF a = "X" THEN Q(1, 200) ELSE Q(1, 100)]] }

EvalConfigs ==
    {EvalConfig(Q(m[1], 1), Q(m[2], 1), margin, tokens) :
        m \in {<<1, 1>>, <<2, 1>>, <<1, 2>>}, margin \in {Zero, Q(1, 100)}, tokens \in ExtraEdges}

\* the sigma maps: None, every asset known, Y unknown
SigmaMaps ==
    { [a \in {} |-> Zero],
      [a \in {"USD", "X", "Y"} |->
          IF a = "USD" THEN Q(1, 10) ELSE IF a = "X" THEN Q(1, 100) ELSE Q(1, 50)],
      [a \in {"USD", "X"} |-> IF a = "USD" THEN Q(1, 10) ELSE Q(1, 100)] }

\* starting notionals in whole units, and 1 unit plus one and plus two epsilons
WholeStarts == {Zero, One, Q(50, 1), Q(100, 1)}
EpsilonStarts == {Q(EpsilonInverse + 1, EpsilonInverse), Q(EpsilonInverse + 2, EpsilonInverse)}

\* amounts with nine decimals are evaluated where every other number of the
\* call is whole (the model's integers are 32 bits wide)
PlainCall(c, snapshots, path, sigma_by_asset) ==
    /\ MapGet(snapshots, "USD-X") = <<UnitBook>>
    /\ c.min_profit_margin = Zero
    /\ c.tokens = [a \in {} |-> [extra_edge_required |-> Zero]]
    /\ sigma_by_asset = [a \in {} |-> Zero]
    /\ \A i \in 1..Len(path.edges) : path.edges[i].fee_rate = 0
    /\ Len(path.edges) = 2

--------------------------------------------------------------------------
(* PathEvaluator as a state machine: one evaluate call on a fresh evaluator *)

NoArgs == [path_id |-> "", edges |-> <<>>, assets |-> <<>>, starting_notional |-> Zero,
           sigma_by_asset |-> <<>>, debug |-> FALSE]

NoResult == [raised |-> "", evaluation |-> <<>>, debug |-> <<>>, legs |-> <<>>, reason |-> ""]

InitEval ==
    /\ ev \in {[called |-> FALSE, config |-> c, snapshots |-> sn, args |-> NoArgs,
                result |-> NoResult] : c \in EvalConfigs, sn \in SnapshotMaps}
    /\ cfg = [markets |-> <<>>, min_order |-> NoMinOrder, tokens |-> <<>>,
              paths |-> [min_length |-> 1, max_length |-> 1, allow_revisit_nodes |-> FALSE]]
    /\ paths = <<>>
    /\ built = FALSE
    /\ paths_again = <<>>
    /\ CacheIdle
    /\ SysIdle

\* the sigma map is None
NoSigma(sigma_by_asset) == DOMAIN sigma_by_asset = {}

\* the two callers of evaluate: ArbitrageScanner.scan_once hands over a path of
\* PathModel, rooted at start_asset, with the sigma map of the volatility
\* cache; the self-test of main.py hands over a two-leg round trip rooted at
\* the asset it names, and no sigma map
CallerPasses(path, sigma_by_asset) ==
    \/ path.assets[1] = start_asset
    \/ Len(path.edges) = 2 /\ NoSigma(sigma_by_asset)

\* PathEvaluator.evaluate
Evaluate(path, starting_notional, sigma_by_asset, debug) ==
    /\ ~ev.called
    /\ CallerPasses(path, sigma_by_asset)
    /\ starting_notional \in EpsilonStarts => PlainCall(ev.config, ev.snapshots, path, sigma_by_asset)
    /\ ev' = [ev EXCEPT
                !.called = TRUE,
                !.args = [path_id |-> "path_1", edges |-> path.edges, assets |-> path.assets,
                          starting_notional |-> starting_notional,
                          sigma_by_asset |-> sigma_by_asset, debug |-> debug],
                !.result = evaluate(ev.config, "path_1", path.edges, path.assets,
                                    starting_notional, ev.snapshots, sigma_by_asset, debug)]
    /\ UNCHANGED <<pathVars, cacheVars, sysVars>>

NextEval ==
    \E fee \in EvalFees, mt \in EvalMinTotals :
        \E path \in EvalPaths(fee, mt), starting_notional \in WholeStarts \cup EpsilonStarts,
           sigma_by_asset \in SigmaMaps, debug \in BOOLEAN :
            Evaluate(path, starting_notional, sigma_by_asset, debug)

SpecEval == InitEval /\ [][NextEval]_vars

--------------------------------------------------------------------------
(* Properties of PathModel *)

PathIdx == 1..Len(paths)
RuleOf(a) == TokenGet(cfg.tokens, a)
AssetSeqs == {paths[k].assets : k \in PathIdx}
InteriorIdx(p) == 2..(Len(p.assets) - 1)

\* C6: every emitted path starts and ends at the anchor, has one more asset
\* than edges, a length within [min_length, max_length], and each edge leads
\* from its asset to the next one.
C6_PathShape ==
    \A k \in PathIdx :
        LET p == paths[k] IN
        /\ p.assets[1] = start_asset
        /\ p.assets[Len(p.assets)] = start_asset
        /\ Len(p.assets) = Len(p.edges) + 1
        /\ cfg.paths.min_length <= Len(p.edges)
        /\ Len(p.edges) <= cfg.paths.max_length
        /\ \A i \in 1..Len(p.edges) :
              /\ p.edges[i].from_asset = p.assets[i]
              /\ p.edges[i].to_asset = p.assets[i + 1]

\* a cycle whose length is exactly the configured minimum, above the shortest
\* closed walk of the graph
C6_Witness ==
    /\ built
    /\ cfg.paths.min_length = 3
    /\ \E k \in PathIdx : Len(paths[k].edges) = 3

\* C7 (as claimed): the anchor appears only as first and last asset of every
\* emitted path, for every min_length and max_length.
C7_AnchorOnlyAtEnds ==
    \A k \in PathIdx : \A i \in InteriorIdx(paths[k]) : paths[k].assets[i] # start_asset

\* C8: with allow_revisit_nodes false no non-anchor asset appears twice in an
\* emitted path.
C8_NoRevisit ==
    ~cfg.paths.allow_revisit_nodes =>
        \A k \in PathIdx :
            \A i, j \in 1..Len(paths[k].assets) :
                (i # j /\ paths[k].assets[i] = paths[k].assets[j])
                    => paths[k].assets[i] = start_asset

\* revisits are forbidden and the graph offers one: X-Y and back within max_length
C8_Witness ==
    /\ built
    /\ ~cfg.paths.allow_revisit_nodes
    /\ cfg.paths.max_length = 4
    /\ MarketInfo("X", "Y") \in Range(cfg.markets)
    /\ \E k \in PathIdx : Len(paths[k].edges) = 3

\* scenario S6: anchor, bridge X, terminal-only Y, markets A-X, X-Y, A-Y
IsS6 ==
    /\ Range(cfg.markets) = MarketUniverse
    /\ RuleOf("X").enabled /\ RuleOf("X").allowed_as_bridge
    /\ RuleOf("Y") = Rule(TRUE, FALSE, TRUE)
    /\ cfg.paths.max_length = 4
    /\ cfg.paths.min_length <= 3

\* C9: an asset that is terminal but not bridge is immediately followed by the
\* anchor in every emitted path; in scenario S6 the cycle USD-X-Y-USD is
\* emitted and USD-Y-X-USD is not.
C9_TerminalReturns ==
    /\ \A k \in PathIdx : \A i \in InteriorIdx(paths[k]) :
          LET a == paths[k].assets[i] IN
          (a # start_asset /\ RuleOf(a).allowed_as_terminal_asset /\ ~RuleOf(a).allowed_as_bridge)
              => paths[k].assets[i + 1] = start_asset
    /\ (built /\ IsS6) =>
          /\ <<"USD", "X", "Y", "USD">> \in AssetSeqs
          /\ <<"USD", "Y", "X", "USD">> \notin AssetSeqs

C9_Witness ==
    /\ built
    /\ IsS6
    /\ <<"USD", "X", "Y", "USD">> \in AssetSeqs

\* C10: every non-anchor asset of an emitted path has a token rule, and that
\* rule is enabled and allows the asset as bridge or as terminal asset.
C10_TokenRules ==
    \A k \in PathIdx : \A i \in 1..Len(paths[k].assets) :
        LET a == paths[k].assets[i] IN
        a # start_asset =>
            /\ RuleOf(a).present
            /\ RuleOf(a).enabled
            /\ RuleOf(a).allowed_as_bridge \/ RuleOf(a).allowed_as_terminal_asset

\* a listed market leads to a token that is disabled or has no rule, and
\* cycles through the other token are emitted
C10_Witness ==
    /\ built
    /\ paths # <<>>
    /\ \E m \in Range(cfg.markets) :
          /\ m.quote_currency = start_asset
          /\ ~RuleOf(m.base_currency).present \/ ~RuleOf(m.base_currency).enabled

\* the graph the PathModel was built over
Graph == MarketGraph(cfg.markets, cfg.min_order)

\* the edge sequences of length n that start at asset a, each edge leaving the
\* asset the one before it reached
RECURSIVE WalksFrom(_, _, _)
WalksFrom(g, a, n) ==
    IF n = 0 THEN {<<>>}
    ELSE UNION {{<<g[i]>> \o w : w \in WalksFrom(g, g[i].to_asset, n - 1)} :
                    i \in {j \in 1..Len(g) : g[j].from_asset = a}}

\* the assets a walk from the anchor passes
AssetsOf(w) == <<start_asset>> \o [i \in 1..Len(w) |-> w[i].to_asset]

\* rules 1-4 of the enumeration: closed at the anchor, anchor only at the two
\* ends, every other asset enabled with a role, a terminal-only asset followed
\* by the anchor, no repeated asset unless revisits are allowed
AdmissibleCycle(w) ==
    LET n == Len(w)
        mid == 1..(n - 1)
    IN /\ n >= 1
       /\ w[n].to_asset = start_asset
       /\ \A i \in mid : w[i].to_asset # start_asset
       /\ \A i \in mid :
             /\ RuleOf(w[i].to_asset).present
             /\ RuleOf(w[i].to_asset).enabled
             /\ RuleOf(w[i].to_asset).allowed_as_bridge
                    \/ RuleOf(w[i].to_asset).allowed_as_terminal_asset
       /\ \A i \in mid :
             ~RuleOf(w[i].to_asset).allowed_as_bridge => w[i + 1].to_asset = start_asset
       /\ ~cfg.paths.allow_revisit_nodes =>
             \A i, j \in mid : i # j => w[i].to_asset # w[j].to_asset

Admissible ==
    UNION {{w \in WalksFrom(Graph, start_asset, n) : AdmissibleCycle(w)} :
              n \in cfg.paths.min_length..cfg.paths.max_length}

Emitted == {paths[k].edges : k \in PathIdx}

\* C11 (as claimed): the emitted paths are exactly the admissible cycles, each
\* emitted once with the assets it passes, and nothing else is emitted.
C11_ExactlyAdmissible ==
    built =>
        /\ Emitted = Admissible
        /\ \A k, l \in PathIdx : k # l => paths[k].edges # paths[l].edges
        /\ \A k \in PathIdx : paths[k].assets = AssetsOf(paths[k].edges)

\* position of an edge in MarketGraph.edges, the order the listing put it in
EdgeIndex(e) == CHOOSE i \in 1..Len(Graph) : Graph[i] = e

\* the first position at which two edge sequences differ, 0 when one is a
\* prefix of the other
FirstDifference(v, w) ==
    LET both == 1..(IF Len(v) < Len(w) THEN Len(v) ELSE Len(w))
        diff == {i \in both : v[i] # w[i]}
    IN IF diff = {} THEN 0 ELSE CHOOSE i \in diff : \A j \in diff : i <= j

\* v is emitted before w when the walk follows edge insertion order
ListedBefore(v, w) ==
    LET i == FirstDifference(v, w)
    IN i # 0 /\ EdgeIndex(v[i]) < EdgeIndex(w[i])

\* C12: the k-th emitted path has the ID path_<k>, so IDs are consecutive from
\* path_1 and unique; a second enumeration over the same graph and config
\* yields the same paths with the same IDs in the same order; and the order
\* follows the insertion order of the edges, which is the market-listing order.
C12_PathIdsAndOrder ==
    /\ \A k \in PathIdx : paths[k].path_id = "path_" \o ToString(k)
    /\ Len(paths) >= 1 => paths[1].path_id = "path_1"
    /\ Len(paths) >= 2 => paths[2].path_id = "path_2"
    /\ Len(paths) >= 3 => paths[3].path_id = "path_3"
    /\ \A k, l \in PathIdx : k # l => paths[k].path_id # paths[l].path_id
    /\ paths_again # <<>> => paths_again[1] = paths
    /\ \A k, l \in PathIdx : k < l => ListedBefore(paths[k].edges, paths[l].edges)

\* both enumerations have run and emitted at least three paths
C12_Witness ==
    /\ built
    /\ paths_again # <<>>
    /\ Len(paths) >= 3

\* the markets MarketGraph.__init__ was given
ListedMarkets == Range(cfg.markets)

\* the positions of the edges of market code that lead from asset a to asset b
\* with the given side
EdgesOf(code, a, b, side) ==
    {i \in 1..Len(Graph) :
        /\ Graph[i].market_code = code
        /\ Graph[i].from_asset = a
        /\ Graph[i].to_asset = b
        /\ Graph[i].side = side}

\* C13: for every listed market with base B and quote Q the graph holds exactly
\* one buy edge Q->B and exactly one sell edge B->Q with that market code, the
\* two carry the same fee_rate and min_total, and the market has no other edge.
C13_TwoEdgesPerMarket ==
    \A m \in ListedMarkets :
        LET buys == EdgesOf(m.market, m.quote_currency, m.base_currency, "buy")
            sells == EdgesOf(m.market, m.base_currency, m.quote_currency, "sell")
        IN /\ Cardinality(buys) = 1
           /\ Cardinality(sells) = 1
           /\ \A i \in buys, j \in sells :
                 /\ Graph[i].fee_rate = Graph[j].fee_rate
                 /\ Graph[i].min_total = Graph[j].min_total
           /\ Cardinality({i \in 1..Len(Graph) : Graph[i].market_code = m.market}) = 2

\* a graph built from a listing that names a market twice, with a min_order
\* section that gives the quotes different minimums, and walked by PathModel
C13_Witness ==
    /\ built
    /\ Len(cfg.markets) = 3
    /\ Cardinality(ListedMarkets) = 2
    /\ cfg.min_order.present
    /\ \E i, j \in 1..Len(Graph) : Graph[i].min_total # Graph[j].min_total

--------------------------------------------------------------------------
(* Properties of OrderbookCache *)

\* the read in rd is a single-market read of key k
ReadsKey(k) ==
    \/ rd.op = "get_snapshot" /\ Key(rd.exchange, rd.market) = k
    \/ rd.op = "snapshot" /\ \E e \in Exchanges : Key(e, rd.market) = k

\* C1 (as claimed): after update(exchange, market, raw) with a raw book that
\* keeps a positive bid and a positive ask, the next read of that market
\* (get_snapshot or snapshot) returns the snapshot update built from raw.
C1_ReadReturnsPublished ==
    ( /\ rd.fresh
      /\ last_update.via = "update"
      /\ last_update.snap # <<>>
      /\ ReadsKey(last_update.key) )
        => rd.result = {<<rd.market, last_update.snap[1]>>}

\* number of positions of seq that satisfy Test
CountIf(seq, Test(_)) == Cardinality({i \in 1..Len(seq) : Test(seq[i])})

\* levels holds exactly the positive levels of raw, in some order
KeepsPositive(levels, raw) ==
    /\ Len(levels) = CountIf(raw, LAMBDA r : r[1] > 0 /\ r[2] > 0)
    /\ \A i \in 1..Len(levels) :
          CountIf(levels, LAMBDA l : l = levels[i])
            = CountIf(raw, LAMBDA r : r[1] = levels[i].price /\ r[2] = levels[i].size)
    /\ \A i \in 1..Len(levels) : levels[i].price > 0 /\ levels[i].size > 0

\* levels holds the levels of raw as received
KeepsAll(levels, raw) ==
    /\ Len(levels) = Len(raw)
    /\ \A i \in 1..Len(raw) : levels[i].price = raw[i][1] /\ levels[i].size = raw[i][2]

\* bids, asks and timestamp of snap all come from the one book raw
FromOneBook(snap, raw) ==
    \/ /\ KeepsPositive(snap.bids, raw.bids)
       /\ KeepsPositive(snap.asks, raw.asks)
       /\ snap.timestamp_ms = (IF raw.timestamp = TsNone THEN 0 ELSE raw.timestamp)
    \/ /\ KeepsAll(snap.bids, raw.bids)
       /\ KeepsAll(snap.asks, raw.asks)
       /\ snap.timestamp_ms = raw.timestamp

\* C2: whatever the interleaving of updates and readers, every snapshot a reader
\* holds is one published snapshot in full: it is stored under the market asked
\* for and its bids, asks and timestamp come from a single delivered book.
C2_NoTornRead ==
    \A r \in rd.result :
        /\ r[2].market = r[1]
        /\ rd.op # "snapshot" => r[2].exchange = rd.exchange
        /\ \E raw \in RawBooks : FromOneBook(r[2], raw)

\* get_snapshot returned the snapshot that update published last, while the
\* watcher is running and two keys are stored
C2_Witness ==
    /\ rd.fresh
    /\ rd.op = "get_snapshot"
    /\ last_update.outcome = "published"
    /\ last_update.via = "update"
    /\ ws.error_count = 0 /\ ws.state = "watching"
    /\ Key(rd.exchange, rd.market) = last_update.key
    /\ rd.result = {<<rd.market, last_update.snap[1]>>}
    /\ Len(books) = 2

StrictlyDecreasing(levels) == \A i \in 1..(Len(levels) - 1) : levels[i].price > levels[i + 1].price
StrictlyIncreasing(levels) == \A i \in 1..(Len(levels) - 1) : levels[i].price < levels[i + 1].price
AllPositive(levels) == \A i \in 1..Len(levels) : levels[i].price > 0 /\ levels[i].size > 0

\* C3 (as claimed): every snapshot stored in the cache, by update or by the
\* WebSocket watcher, has strictly decreasing bids, strictly increasing asks,
\* positive prices and sizes, and no empty side.
C3_StoredSnapshotsOrdered ==
    \A i \in 1..Len(books) :
        LET snap == books[i][2] IN
        /\ snap.bids # <<>> /\ snap.asks # <<>>
        /\ StrictlyDecreasing(snap.bids) /\ StrictlyIncreasing(snap.asks)
        /\ AllPositive(snap.bids) /\ AllPositive(snap.asks)

\* raw has no positive bid or no positive ask
LosesASide(raw) ==
    \/ ~\E i \in 1..Len(raw.bids) : raw.bids[i][1] > 0 /\ raw.bids[i][2] > 0
    \/ ~\E i \in 1..Len(raw.asks) : raw.asks[i][1] > 0 /\ raw.asks[i][2] > 0

\* C4: an update whose raw book has no bid or no ask left after the
\* non-positive levels are dropped changes nothing in the cache; what was
\* published for the market stays readable.
C4_RejectedUpdateIsNoOp ==
    [][\A m \in Markets, raw \in RawBooks :
          (UpdatePub(Exchange, m, raw) /\ LosesASide(raw)) => books' = books]_vars

\* a book with bids but no positive ask was rejected for a market that has a
\* snapshot, and the read that followed returned that snapshot
C4_Witness ==
    /\ last_update.via = "update"
    /\ last_update.outcome = "noop"
    /\ DictGet(books, last_update.key) # <<>>
    /\ rd.fresh
    /\ rd.op = "get_snapshot"
    /\ Key(rd.exchange, rd.market) = last_update.key
    /\ rd.result = AsResult(rd.market, DictGet(books, last_update.key))

\* the dict snapshot_many(e, ms) returns when it reads all of d at once
ManyOf(d, e, ms) == UNION {AsResult(m, DictGet(d, Key(e, m))) : m \in Range(ms)}

\* C5: no update takes effect while a snapshot_many call is reading, and the map
\* it returns holds exactly the requested markets present in the cache with
\* the snapshots the cache holds at that instant.
C5_SnapshotManyPointInTime ==
    [][/\ rd.pc = "reading" => books' = books
       /\ (rd.pc = "reading" /\ rd'.pc = "done")
             => rd'.result = ManyOf(books', rd.exchange, rd.markets)]_vars

\* a snapshot_many call for two markets returned, with both markets present
C5_Witness ==
    /\ rd.op = "snapshot_many"
    /\ rd.pc = "done"
    /\ Len(rd.markets) = 2
    /\ Cardinality(rd.result) = 2

--------------------------------------------------------------------------
(* Properties of PathEvaluator *)

Args == ev.args
Res == ev.result

\* the call returned (it did not raise)
ReturnedCall == ev.called /\ Res.raised = ""

\* the call returned and no guard rejected it, before or during the walk
WalkPassed == ReturnedCall /\ Res.reason = "" /\ Len(Res.legs) = Len(Args.edges)

\* the book a leg traded on
BookOf(code) == ev.snapshots[code]

RECURSIVE Sum(_)
Sum(xs) == IF xs = <<>> THEN Zero ELSE Plus(Head(xs), Sum(Tail(xs)))

\* the amount that entered leg k of the call
InputOf(k) == IF k = 1 THEN Args.starting_notional ELSE Res.legs[k - 1].output_amount

\* the output of the last leg, the starting notional when there is no leg
FinalAmount == IF Res.legs = <<>> THEN Args.starting_notional
               ELSE Res.legs[Len(Res.legs)].output_amount

\* final / starting_notional - 1
InstOf(final) == Minus(Over(final, Args.starting_notional), One)

\* the penalty of a leg as the contract words it, from the leg's effective
\* price and the top of the book it traded on
LegPenalty(leg) ==
    IF leg.side = "buy"
       THEN LET best_ask == BookOf(leg.market_code).asks[1].price
            IN Max(Zero, Over(Minus(leg.effective_price, best_ask), best_ask))
       ELSE LET best_bid == BookOf(leg.market_code).bids[1].price
            IN Max(Zero, Over(Minus(best_bid, leg.effective_price), best_bid))

SlipOf(legs) == Sum([k \in 1..Len(legs) |-> LegPenalty(legs[k])])

\* the largest extra_edge_required among the assets of the path that have a
\* token rule, 0 when none has
ExtraEdgeOf(assets) ==
    LET known == {a \in Range(assets) : a \in DOMAIN ev.config.tokens}
    IN IF known = {} THEN Zero
       ELSE ev.config.tokens[CHOOSE a \in known :
               \A b \in known : LessEq(ev.config.tokens[b].extra_edge_required,
                                       ev.config.tokens[a].extra_edge_required)].extra_edge_required

\* delta_inst - delta_vol - delta_slip of a call that passed the walk
DeltaFinalOf ==
    Minus(Minus(InstOf(FinalAmount),
                _compute_vol_penalty(ev.config, Args.assets, Args.sigma_by_asset)),
          SlipOf(Res.legs))

\* the two-leg cycle USD -> X -> USD on market USD-X
IsRoundTrip ==
    /\ ev.called
    /\ Args.assets = <<"USD", "X", "USD">>

HasBookX(bids, asks) == MapGet(ev.snapshots, "USD-X") = <<EvalBook("USD-X", bids, asks)>>

FeeFree == \A k \in 1..Len(Args.edges) : Args.edges[k].fee_rate = 0

\* scenario S1: bids = asks = [(100, 1)], fee 0, start 50
IsS1 ==
    /\ IsRoundTrip
    /\ FeeFree
    /\ HasBookX(<<Lv(100, 1, 1)>>, <<Lv(100, 1, 1)>>)
    /\ Args.starting_notional = Q(50, 1)

\* C14: a returning call yields a PathEvaluation exactly when every guard passed
\* and delta_final = delta_inst - delta_vol - delta_slip is strictly above
\* min_profit_margin + extra_edge, extra_edge being the largest
\* extra_edge_required among the path's assets; the evaluation carries these
\* numbers; in S1 every delta is 0 and with min_profit_margin 0 the call rejects.
C14_EvaluationIffAboveThreshold ==
    ReturnedCall =>
        /\ (Res.evaluation # <<>>) <=>
              ( /\ WalkPassed
                /\ Less(Plus(ev.config.min_profit_margin, ExtraEdgeOf(Args.assets)), DeltaFinalOf) )
        /\ Res.evaluation # <<>> =>
              LET e == Res.evaluation[1] IN
              /\ e.delta_final = Minus(Minus(e.delta_inst, e.delta_vol), e.delta_slip)
              /\ e.delta_final = DeltaFinalOf
              /\ e.final_amount = FinalAmount
        /\ (IsS1 /\ WalkPassed) =>
              /\ InstOf(FinalAmount) = Zero
              /\ SlipOf(Res.legs) = Zero
              /\ Args.sigma_by_asset = <<>> => DeltaFinalOf = Zero
              /\ (DeltaFinalOf = Zero /\ ev.config.min_profit_margin = Zero) => Res.evaluation = <<>>

\* S1 was walked to the end with min_profit_margin 0, no extra edge and no
\* sigma: delta_final equals the threshold, and the call rejected
C14_Witness ==
    /\ IsS1
    /\ WalkPassed
    /\ ev.config.min_profit_margin = Zero
    /\ ExtraEdgeOf(Args.assets) = Zero
    /\ DeltaFinalOf = Zero
    /\ Res.evaluation = <<>>

\* edges[0].min_total * first_leg_multiplier of the call
RequiredFirstLeg == Times(MinTotalOf(Args.edges[1]), ev.config.first_leg_multiplier)

PreWalkReason == "starting notional below first leg minimum"

\* C15: a call whose starting notional is below edges[0].min_total *
\* first_leg_multiplier rejects with the first-leg-minimum reason and without
\* any leg result; a starting notional equal to that product is not rejected
\* by the pre-walk check.
C15_PreWalkMinimum ==
    (ev.called /\ Args.edges # <<>>) =>
        /\ Less(Args.starting_notional, RequiredFirstLeg) =>
              /\ Res.raised = ""
              /\ Res.evaluation = <<>>
              /\ Res.legs = <<>>
              /\ Res.reason = PreWalkReason
              /\ Args.debug => (Res.debug # <<>> /\ Res.debug[1].reason = PreWalkReason
                                /\ Res.debug[1].legs = <<>>)
        /\ ~Less(Args.starting_notional, RequiredFirstLeg) => Res.reason # PreWalkReason

\* a starting notional equal to the first-leg minimum (100 = 100 * 1) went on
\* into the walk and its first leg was accepted
C15_Witness ==
    /\ ev.called
    /\ Args.edges # <<>>
    /\ Args.starting_notional = RequiredFirstLeg
    /\ Args.starting_notional = Q(100, 1)
    /\ Len(Res.legs) >= 1


\* the reasons with which a simulated leg is rejected
SimReasons == {"insufficient ask depth", "insufficient bid depth", "notional below minimum",
               "invalid VWAP"}

\* the legs of the call that were simulated: the accepted ones, and the next
\* one when a simulation reason ended the call
SimulatedLegs ==
    1..(Len(Res.legs) + (IF Res.reason \in SimReasons THEN 1 ELSE 0))

\* the levels of a side that offer a size
Offered(levels) == SelectSeq(levels, LAMBDA l : Less(Zero, l.size))

\* price * size summed over levels 1..n
RECURSIVE CostUpTo(_, _)
CostUpTo(levels, n) ==
    IF n = 0 THEN Zero ELSE Plus(CostUpTo(levels, n - 1), Times(levels[n].price, levels[n].size))

\* size summed over levels 1..n
RECURSIVE SizeUpTo(_, _)
SizeUpTo(levels, n) ==
    IF n = 0 THEN Zero ELSE Plus(SizeUpTo(levels, n - 1), levels[n].size)

\* what is left of the quote x when every ask has been bought
Unspent(x, asks) ==
    LET o == Offered(asks) IN Max(Zero, Minus(x, CostUpTo(o, Len(o))))

\* leg k of the call was rejected for ask depth
RejectedForAskDepth(k) == k = Len(Res.legs) + 1 /\ Res.reason = "insufficient ask depth"

\* scenario S3: asks = [(100, 0.5)], start 100, first leg USD -> X
IsS3 ==
    /\ IsRoundTrip
    /\ HasBookX(<<Lv(100, 1, 1)>>, <<Lv(100, 1, 2)>>)
    /\ Args.starting_notional = Q(100, 1)
    /\ ~Less(Args.starting_notional, RequiredFirstLeg)
    /\ SnapshotGuards(ev.config, ev.snapshots, Args.edges[1], Args.starting_notional, "") = ""

\* C16: a simulated buy leg is rejected with 'insufficient ask depth' exactly
\* when more than 1e-9 of its input quote is left after all asks are bought, or
\* no ask offers any size; so a leg whose input equals the summed cost of the
\* asks is not rejected for depth, and S3 is.
C16_AskDepth ==
    ReturnedCall =>
        /\ \A k \in SimulatedLegs :
              Args.edges[k].side = "buy" =>
                  LET asks == BookOf(Args.edges[k].market_code).asks IN
                  RejectedForAskDepth(k)
                      <=> (AboveEpsilon(Unspent(InputOf(k), asks)) \/ Offered(asks) = <<>>)
        /\ Res.reason = "insufficient ask depth" =>
              Args.edges[Len(Res.legs) + 1].side = "buy"
        /\ IsS3 => RejectedForAskDepth(1)

\* a buy leg whose input is 1e-9 above the summed cost of the asks was accepted
C16_Witness ==
    /\ ReturnedCall
    /\ Len(Res.legs) >= 1
    /\ Args.edges[1].side = "buy"
    /\ Unspent(InputOf(1), BookOf(Args.edges[1].market_code).asks) = Q(1, EpsilonInverse)

\* the part of the amount x that a level takes when the levels are consumed in
\* order: before is what the earlier levels take whole, whole is what this
\* level takes whole (price * size of the quote on a buy, size of the base on
\* a sell)
TakenAt(x, before, whole) ==
    IF LessEq(Plus(before, whole), x) THEN whole ELSE Max(Zero, Minus(x, before))

\* the reference depth walk of a buy of quote x: the base acquired at level i
RefBuyFill(x, o, i) ==
    LET taken == TakenAt(x, CostUpTo(o, i - 1), Times(o[i].price, o[i].size))
    IN IF taken = Zero THEN Zero ELSE Over(taken, o[i].price)

\* the reference depth walk of a sell of base x: the base sold at level i
RefSellFill(x, o, i) == TakenAt(x, SizeUpTo(o, i - 1), o[i].size)

\* the levels the reference walk visits: all up to the first it does not take whole
RefDepth(o, fill) ==
    LET partial == {i \in 1..Len(o) : fill[i] # o[i].size}
        last == IF partial = {} THEN Len(o) ELSE CHOOSE i \in partial : \A j \in partial : i <= j
    IN [i \in 1..last |-> <<o[i].price, fill[i]>>]

\* x and y differ by no more than the closure epsilon
WithinEpsilon(x, y) == ~AboveEpsilon(Minus(x, y)) /\ ~AboveEpsilon(Minus(y, x))

\* leg (an accepted LegResult) equals the reference walk of its input
MatchesReference(leg) ==
    LET x == leg.input_amount IN
    IF leg.side = "buy"
       THEN LET o == Offered(BookOf(leg.market_code).asks)
                fill == [i \in 1..Len(o) |-> RefBuyFill(x, o, i)]
            IN /\ leg.output_amount = Sum(fill)
               /\ leg.notional_quote = Sum([i \in 1..Len(o) |-> Times(fill[i], o[i].price)])
               /\ WithinEpsilon(leg.notional_quote, x)
               /\ leg.depth_used = RefDepth(o, fill)
       ELSE LET o == Offered(BookOf(leg.market_code).bids)
                fill == [i \in 1..Len(o) |-> RefSellFill(x, o, i)]
            IN /\ leg.output_amount = Sum([i \in 1..Len(o) |-> Times(fill[i], o[i].price)])
               /\ leg.notional_quote = leg.output_amount
               /\ WithinEpsilon(Sum(fill), x)
               /\ leg.depth_used = RefDepth(o, fill)

\* scenario S2: bids = [(101, 10)], asks = [(100, 10)], fee 0, start 100
IsS2 ==
    /\ IsRoundTrip
    /\ FeeFree
    /\ HasBookX(<<Lv(101, 10, 1)>>, <<Lv(100, 10, 1)>>)
    /\ Args.starting_notional = Q(100, 1)

\* C17: every accepted leg equals the reference depth walk of its input: levels
\* in book order, each taken whole while the rest of the input covers it and at
\* most the last in part; a buy spends its input (up to the closure epsilon)
\* and outputs the base acquired, a sell outputs its quote proceeds; each leg
\* takes the output of the one before; S2 gives 1 X, then 101, delta_inst 0.01.
C17_FillEqualsDepthWalk ==
    ReturnedCall =>
        /\ \A k \in 1..Len(Res.legs) :
              /\ Res.legs[k].input_amount = InputOf(k)
              /\ Res.legs[k].side = Args.edges[k].side
              /\ Res.legs[k].market_code = Args.edges[k].market_code
              /\ MatchesReference(Res.legs[k])
        /\ (IsS2 /\ WalkPassed) =>
              /\ Res.legs[1].output_amount = One
              /\ Res.legs[2].output_amount = Q(101, 1)
              /\ InstOf(FinalAmount) = Q(1, 100)
              /\ Res.evaluation # <<>> => Res.evaluation[1].delta_inst = Q(1, 100)

\* a buy leg filled one ask level whole and the next in part, and the sell leg
\* after it was accepted too
C17_Witness ==
    /\ WalkPassed
    /\ IsRoundTrip
    /\ Len(Res.legs[1].depth_used) = 2
    /\ Res.legs[1].depth_used[1][2] = BookOf("USD-X").asks[1].size
    /\ Less(Zero, Res.legs[1].depth_used[2][2])
    /\ Less(Res.legs[1].depth_used[2][2], BookOf("USD-X").asks[2].size)


\* the record that shows the scores of the call: the evaluation, else the debug
\* record of a call that reached the scoring; <<>> when neither is returned
Scores ==
    IF Res.evaluation # <<>> THEN Res.evaluation
    ELSE IF Res.debug # <<>> /\ Res.debug[1].reason = "evaluated" THEN Res.debug
    ELSE <<>>

\* scenario S4: the book symmetric around 1000 with half-spread h = 0.001,
\* fee f = 0.0004 on each leg
IsS4 ==
    /\ IsRoundTrip
    /\ HasBookX(<<Lv(999, 10, 1)>>, <<Lv(1001, 10, 1)>>)
    /\ \A k \in 1..Len(Args.edges) : Args.edges[k].fee_rate = FeeRateE4

\* |x - y| <= tol
Near(x, y, tol) == LessEq(Minus(x, y), tol) /\ LessEq(Minus(y, x), tol)

\* C18 (as claimed): delta_inst is net of fees; in S4 (h = 0.001, f = 0.0004)
\* it lies within 1e-4 of -(2h + 2f) = -0.0028.
C18_DeltaInstNetOfFees ==
    (IsS4 /\ WalkPassed /\ Scores # <<>>) =>
        Near(Scores[1].delta_inst, Q(-28, 10000), Q(1, 10000))

\* the asset the cycle of the call starts and ends at
PathAnchor == Args.assets[1]

\* the largest sigma among the given assets, an asset without sigma counting
\* as 0; 0 when there is no asset
MaxSigma(assets) ==
    LET sigma(a) == IF a \in DOMAIN Args.sigma_by_asset THEN Args.sigma_by_asset[a] ELSE Zero
    IN IF assets = {} THEN Zero
       ELSE sigma(CHOOSE a \in assets : \A b \in assets : LessEq(sigma(b), sigma(a)))

VwapOf(leg) ==
    IF leg.side = "buy" THEN Over(leg.notional_quote, leg.output_amount)
    ELSE Over(leg.notional_quote, leg.input_amount)

\* the whole input of the leg was filled at the first level of the book
FillsAtTop(leg) ==
    LET top == IF leg.side = "buy" THEN BookOf(leg.market_code).asks[1]
               ELSE BookOf(leg.market_code).bids[1]
        traded == SelectSeq(leg.depth_used, LAMBDA d : d[2] # Zero)
    IN /\ Len(traded) = 1
       /\ traded[1][1] = top.price
       /\ IF leg.side = "buy" THEN leg.notional_quote = leg.input_amount
          ELSE traded[1][2] = leg.input_amount

\* C20: delta_slip is the sum over the accepted legs of the leg penalty,
\* max(0, (effective_price - best_ask) / best_ask) on a buy and
\* max(0, (best_bid - effective_price) / best_bid) on a sell, with
\* effective_price = vwap * (1 + fee) on a buy and vwap * (1 - fee) on a sell;
\* it is never negative, and it is 0 when the fee is 0 and every leg fills
\* entirely at the top of its book.
C20_SlippageSum ==
    ReturnedCall =>
        /\ \A k \in 1..Len(Res.legs) :
              LET leg == Res.legs[k] IN
              /\ leg.fee_rate = FeeOf(Args.edges[k])
              /\ leg.effective_price
                    = Times(VwapOf(leg), IF leg.side = "buy" THEN Plus(One, leg.fee_rate)
                                         ELSE Minus(One, leg.fee_rate))
        /\ Scores # <<>> =>
              /\ Scores[1].delta_slip = SlipOf(Res.legs)
              /\ LessEq(Zero, Scores[1].delta_slip)
              /\ (FeeFree /\ \A k \in 1..Len(Res.legs) : FillsAtTop(Res.legs[k]))
                    => Scores[1].delta_slip = Zero

\* a scored call with fees whose buy leg went past the first ask level: the
\* penalties of both legs are positive and add up to delta_slip
C20_Witness ==
    /\ WalkPassed
    /\ Scores # <<>>
    /\ ~FeeFree
    /\ Len(Res.legs) = 2
    /\ ~FillsAtTop(Res.legs[1])
    /\ Less(Zero, LegPenalty(Res.legs[1]))
    /\ Less(Zero, LegPenalty(Res.legs[2]))
    /\ Scores[1].delta_slip = Plus(LegPenalty(Res.legs[1]), LegPenalty(Res.legs[2]))


\* C22: with debug=True a returning call always hands back a debug record: on
\* every rejection, with the reason of the rejection, and on success, with the
\* reason "evaluated"; with debug=False the debug element is None.
C22_DebugRecord ==
    ReturnedCall =>
        /\ Args.debug <=> Res.debug # <<>>
        /\ Res.debug # <<>> =>
              /\ Res.debug[1].path_id = Args.path_id
              /\ Res.debug[1].legs = Res.legs
              /\ Res.evaluation # <<>> => Res.debug[1].reason = "evaluated"
              /\ Res.reason # "" => Res.debug[1].reason = Res.reason
              /\ Res.debug[1].reason # ""

\* a call with debug=True that was rejected inside the walk, after a first leg
\* was accepted, and handed back the debug record with that reason
C22_Witness ==
    /\ ReturnedCall
    /\ Args.debug
    /\ Res.evaluation = <<>>
    /\ Len(Res.legs) = 1
    /\ Res.reason \in SimReasons
    /\ Res.debug # <<>>
    /\ Res.debug[1].reason = Res.reason

\* a call with debug=True that returned an evaluation and the debug record
C22_WitnessEvaluated ==
    /\ ReturnedCall
    /\ Args.debug
    /\ Res.evaluation # <<>>
    /\ Res.debug # <<>>
    /\ Res.debug[1].reason = "evaluated"

--------------------------------------------------------------------------
(* VolatilityCache *)

MaxSamples == 3       \* most samples the windows hold together

\* the quote asset update_from_ticker compares against (line 33)
VolQuote == "KRW"

\* the bases of the ticker markets, and the assets get_sigma is asked about
VolAssets == {"X", "Y"}

\* ticker.market: "QUOTE-BASE", a code without "-", a code with two
TickerMarkets == {"KRW-X", "KRW-Y", "USD-X", "USD-Y", "KRWX", "KRW-X-Y"}

\* market.split("-")
SplitMarket(market) ==
    IF \E q \in {"KRW", "USD"}, b \in VolAssets : market = q \o "-" \o b
        THEN CHOOSE p \in {"KRW", "USD"} \X VolAssets : market = p[1] \o "-" \o p[2]
        ELSE IF market = "KRW-X-Y" THEN <<"KRW", "X", "Y">> ELSE <<market>>

TickerTimestamps == 0..2
TickerPrices == {0, 1}

\* risk_model.volatility_window_seconds * 1000
WindowMs == {1, 2}

\* config.tokens as far as the cache reads it: the volatility_tier of each rule;
\* a tier inside the table, one outside it, an asset without a rule
TierRule(tier) == [volatility_tier |-> tier]
VolTokens ==
    { ("X" :> TierRule(1)) @@ ("Y" :> TierRule(4)),
      ("X" :> TierRule(9)),
      ("Y" :> TierRule(3)) }

\* line 59: the tier of an asset without a rule
DefaultTier == 3

\* DEFAULT_SIGMA_BY_TIER, in units of 1e-4
DEFAULT_SIGMA_BY_TIER == (0 :> 3) @@ (1 :> 5) @@ (2 :> 15) @@ (3 :> 30) @@ (4 :> 50) @@ (5 :> 100)
FallbackSigma == 50

PriceSample(timestamp, price) == [timestamp_ms |-> timestamp, price |-> price]

\* the deque of every base is empty right after construction; a base
\* self._samples has no key for reads as the empty window (line 63)
NoSamples == [a \in VolAssets |-> <<>>]

NoCall == [op |-> "none", market |-> "", timestamp |-> 0, asset |-> "", outcome |-> "",
           sigma |-> <<>>]

\* no PathModel has been built
PathsIdle ==
    /\ cfg = [markets |-> <<>>, min_order |-> NoMinOrder, tokens |-> <<>>,
              paths |-> [min_length |-> 1, max_length |-> 1, allow_revisit_nodes |-> FALSE]]
    /\ paths = <<>>
    /\ built = FALSE
    /\ paths_again = <<>>

\* VolatilityCache.__init__
InitVol ==
    /\ \E w \in WindowMs, t \in VolTokens :
          vol = [made |-> TRUE, window_ms |-> w, tokens |-> t, samples |-> NoSamples,
                 last |-> NoCall]
    /\ PathsIdle
    /\ ev = NoEval
    /\ CacheIdle
    /\ scan = [made |-> FALSE]
    /\ mgr = [kind |-> "none"]

RECURSIVE _prune(_, _)
\* lines 43-46: pop from the left while the leftmost sample is older than cutoff
_prune(window, cutoff) ==
    IF window # <<>> /\ window[1].timestamp_ms < cutoff
        THEN _prune(Tail(window), cutoff)
        ELSE window

\* lines 57-60
_default_sigma(tokens, asset) ==
    LET tier == IF asset \in DOMAIN tokens THEN tokens[asset].volatility_tier ELSE DefaultTier IN
    IF tier \in DOMAIN DEFAULT_SIGMA_BY_TIER THEN DEFAULT_SIGMA_BY_TIER[tier] ELSE FallbackSigma

\* lines 68-71: the pairs of neighbours a return is taken from
ReturnPairs(window) ==
    {i \in 1..(Len(window) - 1) : window[i].price > 0 /\ window[i + 1].price > 0}

\* lines 62-88 with the default kept for the empty window only
_sigma_from_window_OneSample(tokens, asset, window) ==
    IF window = <<>> \/ (Len(window) > 1 /\ ReturnPairs(window) = {})
        THEN [kind |-> "default", value |-> _default_sigma(tokens, asset)]
        ELSE [kind |-> "computed", value |-> 0]

\* lines 62-88; the value computed from the returns is not modelled
_sigma_from_window(tokens, asset, window) ==
    IF window = <<>> \/ Len(window) < 2
        THEN [kind |-> "default", value |-> _default_sigma(tokens, asset)]
        ELSE IF ReturnPairs(window) = {}
            THEN [kind |-> "default", value |-> _default_sigma(tokens, asset)]
            ELSE [kind |-> "computed", value |-> 0]

TotalSamples(samples) == Len(samples["X"]) + Len(samples["Y"])

\* lines 28-41: what the call does to _samples
update_from_ticker(v, market, timestamp, price) ==
    LET parts == SplitMarket(market) IN
    IF Len(parts) < 2 THEN [outcome |-> "ignored", samples |-> v.samples]
    ELSE IF Len(parts) > 2 THEN [outcome |-> "ValueError", samples |-> v.samples]
    ELSE IF parts[1] # VolQuote THEN [outcome |-> "ignored", samples |-> v.samples]
    ELSE [outcome |-> "appended",
          samples |-> [v.samples EXCEPT ![parts[2]] =
                          _prune(Append(@, PriceSample(timestamp, price)),
                                 timestamp - v.window_ms)]]

UpdateFromTicker(market, timestamp, price) ==
    /\ vol.made
    /\ TotalSamples(vol.samples) < MaxSamples
    /\ LET r == update_from_ticker(vol, market, timestamp, price) IN
       vol' = [vol EXCEPT !.samples = r.samples,
                          !.last = [op |-> "update_from_ticker", market |-> market,
                                    timestamp |-> timestamp, asset |-> "",
                                    outcome |-> r.outcome, sigma |-> <<>>]]
    /\ UNCHANGED <<pathVars, cacheVars, evalVars, scan, mgr>>

\* lines 48-51
GetSigma(asset) ==
    /\ vol.made
    /\ vol' = [vol EXCEPT !.last = [op |-> "get_sigma", market |-> "", timestamp |-> 0,
                                    asset |-> asset, outcome |-> "returned",
                                    sigma |-> <<_sigma_from_window(vol.tokens, asset,
                                                                  vol.samples[asset])>>]]
    /\ UNCHANGED <<pathVars, cacheVars, evalVars, scan, mgr>>

NextVol ==
    \/ \E m \in TickerMarkets, t \in TickerTimestamps, p \in TickerPrices :
          UpdateFromTicker(m, t, p)
    \/ \E a \in VolAssets : GetSigma(a)

SpecVol == InitVol /\ [][NextVol]_vars

--------------------------------------------------------------------------
(* ArbitrageScannerMulti *)

MaxPasses == 2        \* most passes of run_once

\* the scanner before its construction
NoScan == [made |-> FALSE]

\* an edge of the market graph on the exchange it trades on
OnExchange(edge, e) == [edge EXCEPT !.exchange = e]

ScanPath(id, edges, assets) == [path_id |-> id, edges |-> edges, assets |-> assets]

\* an edge under the market code MarketGraph gives it, market_graph.py lines
\* 49-55: the whole key of a market listed as "<exchange>::<market>"
Coded(edge, code) == [edge EXCEPT !.market_code = code]

\* path_model.paths: the round trip through X and the one through Y on the
\* exchange that has a cache, a round trip whose second leg trades on an
\* exchange without one, and the round trip through X as MarketGraph builds it
\* from a market listed under the key "e1::USD-X"
ScanPaths ==
    << ScanPath("path_1",
                <<OnExchange(BuyOf("USD", "X", FeeRateE4, DefaultMinTotal), Exchange),
                  OnExchange(SellOf("USD", "X", FeeRateE4, DefaultMinTotal), Exchange)>>,
                <<"USD", "X", "USD">>),
       ScanPath("path_2",
                <<OnExchange(BuyOf("USD", "Y", FeeRateE4, DefaultMinTotal), Exchange),
                  OnExchange(SellOf("USD", "Y", FeeRateE4, DefaultMinTotal), Exchange)>>,
                <<"USD", "Y", "USD">>),
       ScanPath("path_3",
                <<OnExchange(BuyOf("USD", "Y", FeeRateE4, DefaultMinTotal), Exchange),
                  OnExchange(SellOf("USD", "Y", FeeRateE4, DefaultMinTotal), "e2")>>,
                <<"USD", "Y", "USD">>),
       ScanPath("path_4",
                <<OnExchange(Coded(BuyOf("USD", "X", FeeRateE4, DefaultMinTotal),
                                   Prefixed(Exchange, "USD-X")), Exchange),
                  OnExchange(Coded(SellOf("USD", "X", FeeRateE4, DefaultMinTotal),
                                   Prefixed(Exchange, "USD-X")), Exchange)>>,
                <<"USD", "X", "USD">>) >>

\* the books the feed of the scanned exchange delivers: crossed by 2%, crossed
\* by 1%, and an ordinary book with a spread
ScanBooks ==
    { Book(<<<<102, 10>>>>, <<<<100, 10>>>>, 10),
      Book(<<<<101, 10>>>>, <<<<100, 10>>>>, 20),
      Book(<<<<99, 10>>>>, <<<<100, 10>>>>, 30) }

\* sum of b.usdc over the balances
StartUsdc == {Zero, Q(100, 1)}

ScanConfig == EvalConfig(One, One, Zero, [a \in {} |-> [extra_edge_required |-> Zero]])

\* a snapshot of the cache as the evaluator reads it (prices and sizes are floats)
FloatLevels(levels) ==
    [i \in 1..Len(levels) |-> [price |-> Q(levels[i].price, 1), size |-> Q(levels[i].size, 1)]]
FloatBook(snap) == [snap EXCEPT !.bids = FloatLevels(@), !.asks = FloatLevels(@)]

NoSnapshots == [m \in {} |-> UnitBook]

\* ArbitrageScannerMulti.__init__, lines 20-35, without a volatility cache;
\* _best_delta <<>> is float("-inf")
NewScanner(usdc) ==
    [made |-> TRUE, start_usdc |-> usdc, _best_delta |-> <<>>, _best_record |-> <<>>,
     pc |-> "idle", passes |-> 0, i |-> 1, j |-> 1, snapshots |-> NoSnapshots,
     evaluated |-> 0, ops |-> 0, summary |-> <<>>,
     skipped |-> {}, handed |-> {}, found |-> {}]

InitScan ==
    /\ single_exchange \in {"", Exchange}
    /\ books = <<>>
    /\ lock = NoOwner
    /\ rd = NoRead
    /\ ws = [symbol |-> "", error_count |-> 0, state |-> "off"]
    /\ stop_event = FALSE
    /\ last_update = NoUpdate
    /\ PathsIdle
    /\ ev = NoEval
    /\ vol = NoVol
    /\ mgr = [kind |-> "none"]
    /\ scan \in {NewScanner(usdc) : usdc \in StartUsdc}

\* lines 39-46: has_data of the cache and the balance decide whether the pass
\* runs; lines 48-51: the counters start at zero
RunOnceBegin ==
    /\ scan.made
    /\ scan.pc \in {"idle", "returned"}
    /\ scan.passes < MaxPasses
    /\ lock = NoOwner
    /\ scan' = IF books = <<>> \/ LessEq(scan.start_usdc, Zero)
                 THEN [scan EXCEPT !.pc = "returned", !.passes = @ + 1, !.summary = <<>>,
                                   !.skipped = {}, !.handed = {}, !.found = {}]
                 ELSE [scan EXCEPT !.pc = "loop", !.passes = @ + 1, !.summary = <<>>,
                                   !.i = 1, !.j = 1, !.snapshots = NoSnapshots,
                                   !.evaluated = 0, !.ops = 0,
                                   !.skipped = {}, !.handed = {}, !.found = {}]
    /\ UNCHANGED <<pathVars, cacheVars, evalVars, vol, mgr>>

\* lines 59-66 with no leg ever taken as missing
SnapshotMissing_Never(leg, snap) == FALSE

\* lines 59-66: the leg has no cache or no snapshot to read
SnapshotMissing(leg, snap) == leg.exchange # Exchange \/ snap = <<>>

\* lines 57-70: one leg's snapshot is read; a missing one ends the path
ReadLeg ==
    /\ scan.pc = "loop"
    /\ scan.i <= Len(ScanPaths)
    /\ scan.j <= Len(ScanPaths[scan.i].edges)
    /\ lock = NoOwner
    /\ LET path == ScanPaths[scan.i]
           leg == path.edges[scan.j]
           snap == IF leg.exchange # Exchange THEN <<>>
                   ELSE SnapshotLookup(books, single_exchange, leg.market_code)
       IN scan' = IF SnapshotMissing(leg, snap)
                    THEN [scan EXCEPT !.i = @ + 1, !.j = 1, !.snapshots = NoSnapshots,
                                      !.skipped = @ \cup {path.path_id}]
                    ELSE [scan EXCEPT !.j = @ + 1,
                                      !.snapshots = IF snap = <<>> THEN @
                                                    ELSE (leg.market_code :> FloatBook(snap[1])) @@ @]
    /\ UNCHANGED <<pathVars, cacheVars, evalVars, vol, mgr>>

\* lines 100-104
_update_best(s, path, evaluation) ==
    IF s._best_delta # <<>> /\ LessEq(evaluation.delta_final, s._best_delta[1])
        THEN s
        ELSE [s EXCEPT !._best_delta = <<evaluation.delta_final>>,
                       !._best_record = <<[path_id |-> path.path_id, assets |-> path.assets,
                                           delta_final |-> evaluation.delta_final]>>]

\* lines 72-86 on the result of evaluate
AfterEvaluate(s, path, result) ==
    IF result.raised # ""
        THEN [s EXCEPT !.pc = "raised", !.evaluated = @ + 1, !.handed = @ \cup {path.path_id}]
        ELSE LET counted == [s EXCEPT !.i = @ + 1, !.j = 1, !.snapshots = NoSnapshots,
                                      !.evaluated = @ + 1, !.handed = @ \cup {path.path_id}]
             IN IF result.evaluation = <<>> THEN counted
                ELSE _update_best([counted EXCEPT !.ops = @ + 1,
                                                  !.found = @ \cup {<<path.path_id,
                                                                      result.evaluation[1].delta_final>>}],
                                  path, result.evaluation[1])

\* lines 72-86: every leg has its snapshot, the path is evaluated
EvaluatePath ==
    /\ scan.pc = "loop"
    /\ scan.i <= Len(ScanPaths)
    /\ scan.j > Len(ScanPaths[scan.i].edges)
    /\ scan' = AfterEvaluate(scan, ScanPaths[scan.i],
                             evaluate(ScanConfig, ScanPaths[scan.i].path_id, ScanPaths[scan.i].edges,
                                      ScanPaths[scan.i].assets, scan.start_usdc, scan.snapshots,
                                      [a \in {} |-> Zero], FALSE))
    /\ UNCHANGED <<pathVars, cacheVars, evalVars, vol, mgr>>

\* lines 106-118
_best_summary(s) ==
    IF s._best_record = <<>>
        THEN [best_path_id |-> <<>>, best_assets |-> <<>>, best_delta_final |-> <<>>]
        ELSE [best_path_id |-> <<s._best_record[1].path_id>>,
              best_assets |-> <<s._best_record[1].assets>>,
              best_delta_final |-> <<s._best_record[1].delta_final>>]

\* lines 88-94: the summary of the pass (duration_ms is not modelled)
RunOnceEnd ==
    /\ scan.pc = "loop"
    /\ scan.i > Len(ScanPaths)
    /\ scan' = [scan EXCEPT !.pc = "returned",
                            !.summary = <<[evaluated |-> scan.evaluated,
                                           opportunities |-> scan.ops,
                                           best |-> _best_summary(scan)]>>]
    /\ UNCHANGED <<pathVars, cacheVars, evalVars, vol, mgr>>

\* every await of the pass taken as a point where the event loop switches tasks
ScannerSuspended_AtEveryAwait == scan.made /\ scan.pc = "loop"

\* lines 53-86 hold one await, cache.snapshot of line 63, whose only await is
\* the acquire of `async with self._lock` (orderbook_cache.py line 114):
\* asyncio.Lock.acquire returns without yielding to the event loop when the lock
\* is free, so run_once is suspended inside a pass only while the lock is held
ScannerSuspended == scan.made /\ scan.pc = "loop" /\ lock # NoOwner

\* the event loop runs one task at a time: the feed gets a turn when the
\* scanner is outside a pass or suspended in one
FeedRuns == ~scan.made \/ scan.pc # "loop" \/ ScannerSuspended

\* the poller's update, polling_manager.py line 70, when the event loop runs it
FeedPublishes(m, raw) == FeedRuns /\ UpdatePub(Exchange, m, raw)

\* the scanner and the poller that feeds its cache, with single-level publication
NextScan ==
    \/ \E m \in Markets, raw \in ScanBooks : FeedPublishes(m, raw)
    \/ RunOnceBegin
    \/ ReadLeg
    \/ EvaluatePath
    \/ RunOnceEnd

SpecScan == InitScan /\ [][NextScan]_vars

--------------------------------------------------------------------------
(* WSManager and WebSocketManager: start, the ingestion tasks, shutdown *)

\* the tasks of WSManager (polling_manager.py lines 42-43) and of
\* WebSocketManager (websocket_manager.py lines 83, 194)
PollTasks == {"orderbooks", "tickers"}
WsTasks == {"subscribe", "watcher"}
TasksOf(kind) == IF kind = "polling" THEN PollTasks ELSE WsTasks

\* a task: the await it is suspended at ("none" before it is created, "new"
\* before its first step, "done" when it has ended), and whether cancel() was
\* called on it and the CancelledError not yet thrown into it
Task(pc) == [pc |-> pc, must_cancel |-> FALSE]

NewManager(kind) ==
    [kind |-> kind, started |-> FALSE, tasks |-> [t \in TasksOf(kind) |-> Task("none")],
     handle |-> "open", stopping |-> "no"]

\* the books fetch_order_book returns, and the tickers fetch_ticker returns
\* (timestamp, last); <<>> is a ticker without "last"
PollBooks == {Book(<<<<1, 1>>>>, <<<<2, 1>>>>, 10), Book(<<<<3, 1>>>>, <<<<4, 1>>>>, 20), EmptyOb}
PollTickers == {<<>>, <<1, 1>>, <<2, 1>>}

InitStop ==
    /\ single_exchange = ""
    /\ books = <<>>
    /\ lock = NoOwner
    /\ rd = NoRead
    /\ stop_event = FALSE
    /\ last_update = NoUpdate
    /\ PathsIdle
    /\ ev = NoEval
    /\ scan = [made |-> FALSE]
    /\ \/ /\ mgr = NewManager("polling")
          /\ ws = [symbol |-> "", error_count |-> 0, state |-> "off"]
          /\ vol = [made |-> TRUE, window_ms |-> 2, tokens |-> ("X" :> TierRule(1)),
                    samples |-> NoSamples, last |-> NoCall]
       \/ /\ mgr = NewManager("websocket")
          /\ ws = [symbol |-> Symbol("X", "USD"), error_count |-> 0, state |-> "start"]
          /\ vol = NoVol

restOfStop == <<pathVars, evalVars, scan, single_exchange, lock, rd, last_update>>

\* WSManager.start, lines 39-43, and WebSocketManager.start up to its gather,
\* lines 167-201: the tasks are created and kept in self._tasks
ManagerStart ==
    /\ mgr.kind # "none"
    /\ ~mgr.started
    /\ mgr.stopping = "no"
    /\ mgr' = [mgr EXCEPT !.started = TRUE,
                          !.tasks = IF mgr.kind = "polling"
                                        THEN [t \in PollTasks |-> Task("new")]
                                        ELSE [@ EXCEPT !["subscribe"] = Task("new")]]
    /\ UNCHANGED <<restOfStop, books, ws, stop_event, vol>>

\* the task is resumed by the event loop with the result it waits for: no
\* cancel() has been called on it since it was suspended
Resumes(t, pc) == mgr.tasks[t].pc = pc /\ ~mgr.tasks[t].must_cancel

MovesTo(t, pc) == mgr' = [mgr EXCEPT !.tasks[t].pc = pc]

\* the first step of a poller: up to the first fetch
PollerBegins(t) ==
    /\ mgr.kind = "polling"
    /\ Resumes(t, "new")
    /\ MovesTo(t, "fetch")
    /\ UNCHANGED <<restOfStop, books, ws, stop_event, vol>>

\* _poll_orderbooks, lines 61-81: fetch_order_book returns a book, the cache
\* publishes it, the task sleeps
PollOrderbook(raw) ==
    /\ mgr.kind = "polling"
    /\ Resumes("orderbooks", "fetch")
    /\ lock = NoOwner
    /\ LET s == BuildSnapshot(Exchange, "USD-X", raw) IN
       books' = IF s = <<>> THEN books ELSE PublishSnapshot(books, s[1])
    /\ MovesTo("orderbooks", "sleep")
    /\ UNCHANGED <<restOfStop, ws, stop_event, vol>>

\* _poll_tickers, lines 89-110: fetch_ticker returns a ticker, the volatility
\* cache takes it, the task sleeps
PollTicker(t) ==
    /\ mgr.kind = "polling"
    /\ Resumes("tickers", "fetch")
    /\ TotalSamples(vol.samples) < MaxSamples
    /\ vol' = IF t = <<>> THEN vol
              ELSE [vol EXCEPT !.samples = update_from_ticker(vol, "KRW-X", t[1], t[2]).samples,
                               !.last = [op |-> "update_from_ticker", market |-> "KRW-X",
                                         timestamp |-> t[1], asset |-> "",
                                         outcome |-> "appended", sigma |-> <<>>]]
    /\ MovesTo("tickers", "sleep")
    /\ UNCHANGED <<restOfStop, books, ws, stop_event>>

\* lines 76-79, 105-108: the fetch raises, the inner handler goes on
PollFetchError(t) ==
    /\ mgr.kind = "polling"
    /\ Resumes(t, "fetch")
    /\ MovesTo(t, "sleep")
    /\ UNCHANGED <<restOfStop, books, ws, stop_event, vol>>

\* lines 81, 110: the sleep is over, the next round fetches
PollerWakes(t) ==
    /\ mgr.kind = "polling"
    /\ Resumes(t, "sleep")
    /\ MovesTo(t, "fetch")
    /\ UNCHANGED <<restOfStop, books, ws, stop_event, vol>>

\* lines 76, 105 with a handler that takes every exception
CaughtByInner_Any(exception) == TRUE

\* lines 76, 105: "except Exception" around one market's fetch and update;
\* CancelledError is a BaseException and no Exception
CaughtByInner(exception) == exception # "CancelledError"

\* the CancelledError is thrown into a poller at the await it is suspended at:
\* the inner handler does not take it (lines 76, 105), the outer one returns
\* (lines 83-84, 112-113); a poller that never ran ends cancelled
PollerCancelled(t) ==
    /\ mgr.kind = "polling"
    /\ mgr.tasks[t].must_cancel
    /\ mgr.tasks[t].pc \in {"new", "fetch", "sleep"}
    /\ mgr' = [mgr EXCEPT !.tasks[t] =
                  IF mgr.tasks[t].pc = "fetch" /\ CaughtByInner("CancelledError")
                      THEN Task("sleep")
                      ELSE Task("done")]
    /\ UNCHANGED <<restOfStop, books, ws, stop_event, vol>>

\* Task.cancel(): nothing on a task that has ended or does not exist
Cancel(task) ==
    IF task.pc \in {"none", "done"} THEN task ELSE [task EXCEPT !.must_cancel = TRUE]

\* WSManager.stop, lines 54-55: every task is cancelled, then close is awaited
Stop ==
    /\ mgr.kind = "polling"
    /\ mgr.started
    /\ mgr.stopping = "no"
    /\ mgr' = [mgr EXCEPT !.stopping = "closing",
                          !.tasks = [t \in PollTasks |-> Cancel(mgr.tasks[t])]]
    /\ UNCHANGED <<restOfStop, books, ws, stop_event, vol>>

\* WebSocketManager.close, lines 209-211: the tasks of self._tasks that are
\* not done are cancelled; cancelling a task that waits in gather cancels the
\* tasks gathered
Close ==
    /\ mgr.kind = "websocket"
    /\ mgr.started
    /\ mgr.stopping = "no"
    /\ mgr' = [mgr EXCEPT !.stopping = "closing",
                          !.tasks = [t \in WsTasks |->
                                        IF t = "watcher" /\ mgr.tasks["subscribe"].pc # "gather"
                                            THEN mgr.tasks[t]
                                            ELSE Cancel(mgr.tasks[t])]]
    /\ UNCHANGED <<restOfStop, books, ws, stop_event, vol>>

\* polling_manager.py line 56 and websocket_manager.py lines 213-221: close()
\* of the exchange returns (or raises, which WebSocketManager swallows), the
\* handle is closed
CloseReturns ==
    /\ mgr.kind # "none"
    /\ mgr.stopping = "closing"
    /\ mgr' = [mgr EXCEPT !.stopping = "done", !.handle = "closed"]
    /\ UNCHANGED <<restOfStop, books, ws, stop_event, vol>>

\* subscribe_orderbooks, lines 72-88: the watcher task is created and gathered
SubscribeBegins ==
    /\ mgr.kind = "websocket"
    /\ Resumes("subscribe", "new")
    /\ mgr' = [mgr EXCEPT !.tasks["subscribe"].pc = "gather", !.tasks["watcher"] = Task("new")]
    /\ UNCHANGED <<restOfStop, books, ws, stop_event, vol>>

\* lines 88-89: the gather is complete once the watcher has ended, and a
\* cancelled gather raises in subscribe_orderbooks then; a subscribe task
\* cancelled before its first step never creates a watcher
SubscribeEnds ==
    /\ mgr.kind = "websocket"
    /\ \/ mgr.tasks["subscribe"].pc = "gather" /\ mgr.tasks["watcher"].pc = "done"
       \/ mgr.tasks["subscribe"].pc = "new" /\ mgr.tasks["subscribe"].must_cancel
    /\ mgr' = [mgr EXCEPT !.tasks["subscribe"] = Task("done")]
    /\ UNCHANGED <<restOfStop, books, ws, stop_event, vol>>

\* line 110 at the top of the next iteration: the await the watcher goes to
AfterGuard(w, stop) ==
    IF ~stop /\ w.error_count < MaxErrors THEN "watch" ELSE "done"

Watching(w, stop) ==
    [w EXCEPT !.state = IF AfterGuard(w, stop) = "done" THEN "stopped" ELSE "watching"]

\* lines 99-112: the first step of the watcher, up to watch_order_book
WatcherBegins ==
    /\ mgr.kind = "websocket"
    /\ Resumes("watcher", "new")
    /\ ws' = Watching(ws, stop_event)
    /\ MovesTo("watcher", AfterGuard(ws, stop_event))
    /\ UNCHANGED <<restOfStop, books, stop_event, vol>>

\* lines 112-144: watch_order_book returns a book: an empty one is slept
\* over, one without timestamp raises at line 132, any other is published
WatcherBook(raw) ==
    /\ mgr.kind = "websocket"
    /\ Resumes("watcher", "watch")
    /\ lock = NoOwner
    /\ LET s == WsSnapshot(Exchange, ws.symbol, raw)
           w == IF WsSkips(raw) THEN ws
                ELSE IF s = <<>> THEN [ws EXCEPT !.error_count = @ + 1]
                ELSE [ws EXCEPT !.error_count = 0]
       IN /\ books' = IF WsSkips(raw) \/ s = <<>> THEN books ELSE PublishSnapshot(books, s[1])
          /\ ws' = IF WsSkips(raw) \/ s = <<>> THEN w ELSE Watching(w, stop_event)
          /\ MovesTo("watcher", IF WsSkips(raw) THEN "skip_sleep"
                                ELSE IF s = <<>> THEN "error_sleep"
                                ELSE AfterGuard(w, stop_event))
    /\ UNCHANGED <<restOfStop, stop_event, vol>>

\* lines 149-155: watch_order_book raises
WatcherFeedError ==
    /\ mgr.kind = "websocket"
    /\ Resumes("watcher", "watch")
    /\ ws' = [ws EXCEPT !.error_count = @ + 1]
    /\ MovesTo("watcher", "error_sleep")
    /\ UNCHANGED <<restOfStop, books, stop_event, vol>>

\* lines 115-116, 155: a sleep is over, the loop condition is tested
WatcherWakes ==
    /\ mgr.kind = "websocket"
    /\ \/ Resumes("watcher", "skip_sleep")
       \/ Resumes("watcher", "error_sleep")
    /\ ws' = Watching(ws, stop_event)
    /\ MovesTo("watcher", AfterGuard(ws, stop_event))
    /\ UNCHANGED <<restOfStop, books, stop_event, vol>>

\* the CancelledError is thrown into the watcher: inside the try it breaks the
\* loop (lines 146-148), in the sleep of the handler (line 155) and before the
\* first step it leaves the coroutine
WatcherCancelled ==
    /\ mgr.kind = "websocket"
    /\ mgr.tasks["watcher"].must_cancel
    /\ mgr.tasks["watcher"].pc \in {"new", "watch", "skip_sleep", "error_sleep"}
    /\ ws' = [ws EXCEPT !.state = "cancelled"]
    /\ mgr' = [mgr EXCEPT !.tasks["watcher"] = Task("done")]
    /\ UNCHANGED <<restOfStop, books, stop_event, vol>>

\* the owner of the stop event sets it while the tasks run
StopEventSet ==
    /\ mgr.kind = "websocket"
    /\ ~stop_event
    /\ stop_event' = TRUE
    /\ UNCHANGED <<restOfStop, books, ws, vol, mgr>>

\* a task is handed the CancelledError
Unwinds(t) ==
    \/ t \in PollTasks /\ PollerCancelled(t)
    \/ t = "watcher" /\ WatcherCancelled
    \/ t = "subscribe" /\ SubscribeEnds

NextStop ==
    \/ ManagerStart
    \/ \E t \in PollTasks : PollerBegins(t)
    \/ \E raw \in PollBooks : PollOrderbook(raw)
    \/ \E t \in PollTickers : PollTicker(t)
    \/ \E t \in PollTasks : PollFetchError(t)
    \/ \E t \in PollTasks : PollerWakes(t)
    \/ \E t \in PollTasks : PollerCancelled(t)
    \/ Stop
    \/ Close
    \/ CloseReturns
    \/ SubscribeBegins
    \/ SubscribeEnds
    \/ WatcherBegins
    \/ \E raw \in PollBooks \cup {Book(<<<<1, 3>>>>, <<<<9, 3>>>>, TsNone)} : WatcherBook(raw)
    \/ WatcherFeedError
    \/ WatcherWakes
    \/ WatcherCancelled
    \/ StopEventSet

SpecStop == InitStop /\ [][NextStop]_vars

\* the event loop runs every task that is ready, and close() of an exchange
\* returns
SpecStopFair ==
    /\ SpecStop
    /\ \A t \in PollTasks \cup WsTasks : WF_vars(Unwinds(t))
    /\ WF_vars(CloseReturns)

--------------------------------------------------------------------------
(* Properties of VolatilityCache *)

\* the call the cache was last asked
LastCall == vol.last

\* the ticker of the last call was taken into a window
Accepted == LastCall.op = "update_from_ticker" /\ LastCall.outcome = "appended"

\* C23: after update_from_ticker for an accepted ticker with timestamp t the
\* window of the ticker's base asset holds no sample older than t minus the
\* window length, in whatever order the timestamps arrive.
C23_NoSampleOlderThanCutoff ==
    Accepted =>
        LET window == vol.samples[SplitMarket(LastCall.market)[2]] IN
        \A i \in 1..Len(window) :
            window[i].timestamp_ms >= LastCall.timestamp - vol.window_ms

NonDecreasing(window) ==
    \A i \in 1..(Len(window) - 1) : window[i].timestamp_ms <= window[i + 1].timestamp_ms

\* C24: in every state of the volatility cache the samples of each window are
\* in non-decreasing order of timestamp, whatever timestamps the feed delivers.
C24_WindowsTimeOrdered ==
    vol.made => \A a \in VolAssets : NonDecreasing(vol.samples[a])

\* the quote of a market code that splits into quote and base is the anchor
\* PathModel roots its cycles at
AnchorQuoted(market) ==
    Len(SplitMarket(market)) = 2 /\ SplitMarket(market)[1] = start_asset

\* C25: update_from_ticker appends a sample to the window of the base asset if
\* and only if the quote of the ticker is the anchor asset of PathModel; a
\* ticker with another quote, or with a market code without "-", leaves every
\* window as it was.
C25_AppendsIffAnchorQuote ==
    [][ vol'.last.op = "update_from_ticker" =>
            IF AnchorQuoted(vol'.last.market)
                THEN LET base == SplitMarket(vol'.last.market)[2] IN
                     /\ vol'.samples[base] # vol.samples[base]
                     /\ vol'.samples[base][Len(vol'.samples[base])].timestamp_ms
                            = vol'.last.timestamp
                     /\ \A a \in VolAssets \ {base} : vol'.samples[a] = vol.samples[a]
                ELSE vol'.samples = vol.samples ]_vars

\* get_sigma was the last call, on an asset whose window holds fewer than two samples
SigmaOfShortWindow == LastCall.op = "get_sigma" /\ Len(vol.samples[LastCall.asset]) < 2

\* the tier of the asset's token rule has an entry in DEFAULT_SIGMA_BY_TIER
TierDefaultApplies(asset) ==
    /\ asset \in DOMAIN vol.tokens
    /\ vol.tokens[asset].volatility_tier \in DOMAIN DEFAULT_SIGMA_BY_TIER

TierDefault(asset) == DEFAULT_SIGMA_BY_TIER[vol.tokens[asset].volatility_tier]

DefaultOf(value) == [kind |-> "default", value |-> value]

\* C26 (as claimed): with fewer than two samples in the window get_sigma
\* returns the tier default of the asset's token rule, and the fallback 0.005
\* whenever no tier default applies to the asset.
C26_TierDefaultOrFallback ==
    SigmaOfShortWindow =>
        LastCall.sigma[1] = IF TierDefaultApplies(LastCall.asset)
                                THEN DefaultOf(TierDefault(LastCall.asset))
                                ELSE DefaultOf(FallbackSigma)

\* C26 (amended): with fewer than two samples in the window get_sigma returns
\* the tier default of the asset's token rule, the fallback 0.005 when the
\* rule's tier has no entry in the table, and the default of tier 3 when the
\* asset has no token rule.
C26_TierDefaultFallbackOrTier3 ==
    SigmaOfShortWindow =>
        LastCall.sigma[1] = IF TierDefaultApplies(LastCall.asset)
                                THEN DefaultOf(TierDefault(LastCall.asset))
                                ELSE IF LastCall.asset \in DOMAIN vol.tokens
                                    THEN DefaultOf(FallbackSigma)
                                    ELSE DefaultOf(DEFAULT_SIGMA_BY_TIER[DefaultTier])

\* get_sigma on an asset without a token rule whose window holds exactly one
\* sample: the default of tier 3 comes back
C26_Witness ==
    /\ SigmaOfShortWindow
    /\ Len(vol.samples[LastCall.asset]) = 1
    /\ LastCall.asset \notin DOMAIN vol.tokens
    /\ LastCall.sigma[1] = DefaultOf(30)

\* get_sigma on an asset whose rule names a tier outside the table, window
\* empty: the fallback comes back
C26_WitnessFallback ==
    /\ SigmaOfShortWindow
    /\ vol.samples[LastCall.asset] = <<>>
    /\ LastCall.asset \in DOMAIN vol.tokens
    /\ ~TierDefaultApplies(LastCall.asset)
    /\ LastCall.sigma[1] = DefaultOf(FallbackSigma)

--------------------------------------------------------------------------
(* Properties of ArbitrageScannerMulti *)

AllPathIds == {ScanPaths[k].path_id : k \in 1..Len(ScanPaths)}

\* run_once is about to read a leg whose cache or whose snapshot is missing
MissingAtLeg ==
    /\ scan.made
    /\ scan.pc = "loop"
    /\ scan.i <= Len(ScanPaths)
    /\ scan.j <= Len(ScanPaths[scan.i].edges)
    /\ LET leg == ScanPaths[scan.i].edges[scan.j] IN
       \/ leg.exchange # Exchange
       \/ SnapshotLookup(books, single_exchange, leg.market_code) = <<>>

\* the pass returned a summary
PassReturned == scan.made /\ scan.pc = "returned" /\ scan.summary # <<>>

\* C27: in a scanner pass a path with a missing snapshot of any leg is skipped:
\* it is not handed to the evaluator, it is counted neither in evaluated nor in
\* opportunities, and the pass goes on with the path after it.
C27_MissingSnapshotSkipsPath ==
    /\ [](scan.made =>
            /\ scan.skipped \cap scan.handed = {}
            /\ scan.evaluated = Cardinality(scan.handed)
            /\ scan.ops = Cardinality(scan.found)
            /\ {f[1] : f \in scan.found} \subseteq scan.handed
            /\ PassReturned =>
                  /\ scan.skipped \cup scan.handed = AllPathIds
                  /\ scan.summary[1].evaluated = Cardinality(scan.handed)
                  /\ scan.summary[1].opportunities = Cardinality(scan.found))
    /\ [][(MissingAtLeg /\ scan' # scan) =>
            /\ scan'.pc = "loop"
            /\ scan'.i = scan.i + 1
            /\ scan'.j = 1
            /\ ScanPaths[scan.i].path_id \in scan'.skipped
            /\ scan'.handed = scan.handed
            /\ scan'.evaluated = scan.evaluated
            /\ scan'.ops = scan.ops
            /\ scan'._best_record = scan._best_record]_vars

\* a pass that evaluated the path through X, skipped the path through Y for
\* the snapshot the cache does not hold, and skipped the path over the exchange
\* without a cache and the path whose market code the cache does not find
C27_Witness ==
    /\ PassReturned
    /\ DictGet(books, Key(Exchange, "USD-Y")) = <<>>
    /\ scan.handed = {"path_1"}
    /\ scan.skipped = {"path_2", "path_3", "path_4"}
    /\ scan.summary[1].evaluated = 1

\* the best of the opportunities of this pass
BestFound(f) == f \in scan.found /\ \A g \in scan.found : LessEq(g[2], f[2])

\* C28: the best_path_id, best_assets and best_delta_final of the summary of a
\* pass describe the opportunity with the highest delta_final found in that
\* pass, and are None when that pass found none, whatever earlier passes found.
C28_BestIsOfThisPass ==
    PassReturned =>
        LET best == scan.summary[1].best IN
        IF scan.found = {}
            THEN best.best_path_id = <<>> /\ best.best_assets = <<>> /\ best.best_delta_final = <<>>
            ELSE /\ best.best_path_id # <<>>
                 /\ BestFound(<<best.best_path_id[1], best.best_delta_final[1]>>)
                 /\ \E k \in 1..Len(ScanPaths) :
                        /\ ScanPaths[k].path_id = best.best_path_id[1]
                        /\ ScanPaths[k].assets = best.best_assets[1]

--------------------------------------------------------------------------
(* Properties of the WebSocket watcher's error handling *)

\* the watcher task has ended
WsEnded == ws.state \in {"returned", "cancelled", "stopped"}

\* the step stores a book the watcher received
WsPublishes ==
    /\ last_update'.via = "ws"
    /\ last_update'.outcome = "published"
    /\ books' = PublishSnapshot(books, last_update'.snap[1])

\* C30: the watcher handles feed errors with bounded retry: after an error it
\* goes on watching with its count of consecutive errors one higher, a
\* successful update sets the count back to 0, the watcher stops for good
\* exactly when the count has reached 10, and no error ends the task otherwise.
C30_BoundedRetry ==
    /\ [](/\ ws.error_count \in 0..MaxErrors
          /\ (ws.state = "stopped" /\ ~stop_event) => ws.error_count = MaxErrors)
    /\ [][/\ ws'.error_count # ws.error_count =>
                /\ ws'.state = "watching"
                /\ \/ ws'.error_count = ws.error_count + 1 /\ books' = books
                   \/ ws'.error_count = 0 /\ WsPublishes
          /\ books' # books => ws'.error_count = 0
          /\ (ws.state = "watching" /\ ws.error_count = MaxErrors /\ ws' # ws)
                => ws'.state = "stopped"
          /\ (ws.state = "watching" /\ ws.error_count < MaxErrors /\ ~stop_event)
                => ws'.state \in {"watching", "cancelled"}
          /\ WsEnded => (ws' = ws /\ books' = books)]_vars

\* a watcher that published a book, then met ten errors in a row and stopped,
\* the stop event not being set
C30_Witness ==
    /\ ws.state = "stopped"
    /\ ~stop_event
    /\ ws.error_count = MaxErrors
    /\ books # <<>>

--------------------------------------------------------------------------
(* Properties of the shutdown *)

\* WSManager.stop or WebSocketManager.close has been called
StopRequested == mgr.kind # "none" /\ mgr.stopping # "no"

\* the task has ended, or was never created
Terminated(t) == mgr.tasks[t].pc \in {"none", "done"}

\* C29: once shutdown is requested every ingestion task is cancelled, the
\* next step of each task ends it, no cache is updated any more, and in the
\* end every task has terminated and the exchange handle is closed.
C29_ShutdownUnwindsTasks ==
    /\ [](StopRequested =>
            \A t \in TasksOf(mgr.kind) : Terminated(t) \/ mgr.tasks[t].must_cancel)
    /\ [][StopRequested =>
            /\ books' = books
            /\ vol' = vol
            /\ \A t \in TasksOf(mgr.kind) :
                  mgr'.tasks[t] # mgr.tasks[t] => mgr'.tasks[t].pc = "done"]_vars
    /\ (StopRequested ~>
            /\ \A t \in TasksOf(mgr.kind) : Terminated(t)
            /\ mgr.handle = "closed")

\* WSManager after stop(): both pollers, which had filled the order-book cache
\* and the volatility cache, have ended and the exchange handle is closed
C29_Witness ==
    /\ mgr.kind = "polling"
    /\ mgr.stopping = "done"
    /\ mgr.handle = "closed"
    /\ \A t \in PollTasks : mgr.tasks[t].pc = "done"
    /\ books # <<>>
    /\ vol.samples["X"] # <<>>

\* WebSocketManager after close(): the watcher, which had published a book,
\* was cancelled, the subscribe task has ended and the handle is closed
C29_WitnessWebSocket ==
    /\ mgr.kind = "websocket"
    /\ mgr.stopping = "done"
    /\ mgr.handle = "closed"
    /\ mgr.tasks["watcher"].pc = "done"
    /\ mgr.tasks["subscribe"].pc = "done"
    /\ ws.state = "cancelled"
    /\ books # <<>>

--------------------------------------------------------------------------
(* Properties of the cache, its readers and its feeds, continued *)

\* update was the last ingestion call
UpdatedLast == last_update.via = "update"

\* the cache after the same update is made once more: BuildSnapshot gives the
\* same snapshot for the same book, or rejects it again
UpdatedAgain ==
    IF last_update.snap = <<>> THEN books ELSE PublishSnapshot(books, last_update.snap[1])

Published(e, m) == DictGet(books, Key(e, m))

\* C32: the reads agree on the key a market is stored under: once a snapshot
\* is published for (exchange, market), snapshot(market), get_snapshot(exchange,
\* market) and snapshot_many(exchange, [market]) all return it, also with
\* single_exchange set and also for a market code with an exchange prefix.
C32_ReadsAgreeOnKey ==
    (rd.fresh /\ rd.pc = "done") =>
        /\ (rd.op = "get_snapshot" /\ Published(rd.exchange, rd.market) # <<>>)
              => rd.result = AsResult(rd.market, Published(rd.exchange, rd.market))
        /\ (rd.op = "snapshot" /\ Published(Exchange, StripPrefix(rd.market)) # <<>>)
              => rd.result = AsResult(rd.market, Published(Exchange, StripPrefix(rd.market)))
        /\ rd.op = "snapshot_many" =>
              \A i \in 1..Len(rd.markets) :
                  Published(rd.exchange, rd.markets[i]) # <<>>
                      => <<rd.markets[i], Published(rd.exchange, rd.markets[i])[1]>> \in rd.result

--------------------------------------------------------------------------
(* Properties of PathEvaluator.evaluate, continued *)

\* the call returned a rejection from inside the loop of lines 87-134
RejectedInLoop ==
    /\ ReturnedCall
    /\ Res.reason # ""
    /\ Res.reason # PreWalkReason

\* the leg that was appended before its output was found non-positive, line 119
OutputRejected == Res.reason = "non-positive output after " \o Args.edges[Len(Res.legs)].market_code

\* the legs of the result are the results of edges 1..Len(legs), in that order,
\* each starting from what the one before handed on
LegsFollowPath ==
    /\ Len(Res.legs) <= Len(Args.edges)
    /\ \A k \in 1..Len(Res.legs) :
          /\ Res.legs[k].market_code = Args.edges[k].market_code
          /\ Res.legs[k].side = Args.edges[k].side
          /\ Res.legs[k].input_amount =
                IF k = 1 THEN Args.starting_notional ELSE Res.legs[k - 1].output_amount

\* C33: legs are processed in path order and the first failing guard ends the
\* call: the result holds the legs of a prefix of the path in order, a
\* rejection leaves at least one edge without a leg result, returns no
\* PathEvaluation, and in debug mode its record lists exactly those legs.
C33_FirstFailureEndsWalk ==
    ev.called =>
        /\ LegsFollowPath
        /\ RejectedInLoop =>
              /\ Res.evaluation = <<>>
              /\ Len(Res.legs) < Len(Args.edges) \/ OutputRejected
              /\ Args.debug => (Res.debug # <<>> /\ Res.debug[1].legs = Res.legs)

\* a three-leg path whose first leg was accepted and whose second was rejected,
\* in debug mode
C33_Witness ==
    /\ RejectedInLoop
    /\ Args.debug
    /\ Len(Args.edges) = 3
    /\ Len(Res.legs) = 1

\* edge.min_total * multiplier of leg k, lines 104-105: first_leg_multiplier
\* for the first leg, min_notional_multiplier for every later one
RequiredOf(k) ==
    Times(MinTotalOf(Args.edges[k]),
          IF k = 1 THEN ev.config.first_leg_multiplier ELSE ev.config.min_notional_multiplier)

\* the quote the reference depth walk trades when x enters a leg of the given
\* side on the book of market code: spent on a buy, proceeds on a sell
RefNotional(side, code, x) ==
    LET o == Offered(IF side = "buy" THEN BookOf(code).asks ELSE BookOf(code).bids)
    IN Sum([i \in 1..Len(o) |->
               Times(IF side = "buy" THEN RefBuyFill(x, o, i) ELSE RefSellFill(x, o, i),
                     o[i].price)])

\* the traded notional of the leg that was simulated and not accepted
RejectedNotional ==
    RefNotional(Args.edges[Len(Res.legs) + 1].side, Args.edges[Len(Res.legs) + 1].market_code,
                InputOf(Len(Res.legs) + 1))

NotionalReason == "notional below minimum"

\* C34: every accepted leg traded at least edge.min_total * first_leg_multiplier
\* (first leg) or edge.min_total * min_notional_multiplier (later legs) of
\* quote; a simulated leg that the book can fill and whose traded notional is
\* below that is rejected with the notional-below-minimum reason, and that
\* reason is given to no other leg.
C34_AcceptedLegsMeetMinimum ==
    ev.called =>
        /\ \A k \in 1..Len(Res.legs) :
              /\ LessEq(RequiredOf(k), Res.legs[k].notional_quote)
              /\ Res.legs[k].notional_quote =
                    RefNotional(Res.legs[k].side, Res.legs[k].market_code, InputOf(k))
        /\ (ReturnedCall /\ Res.reason = NotionalReason) =>
              Less(RejectedNotional, RequiredOf(Len(Res.legs) + 1))
        /\ (ReturnedCall /\ Res.reason = "invalid VWAP") =>
              ~Less(RejectedNotional, RequiredOf(Len(Res.legs) + 1))

\* a leg that passed the input guards was simulated and rejected for its
\* traded notional, after an accepted leg
C34_Witness ==
    /\ ReturnedCall
    /\ Res.reason = NotionalReason
    /\ Len(Res.legs) >= 1

\* the call walked every leg and was rejected at line 165, delta_final being at
\* or below the threshold
RejectedAtThreshold == WalkPassed /\ Res.evaluation = <<>>

\* C35: in debug mode the record of a rejection carries the reason of the guard
\* that failed, and the reason "evaluated" appears exactly when a
\* PathEvaluation is returned: a path rejected because delta_final <=
\* min_profit is not reported as "evaluated".
C35_EvaluatedOnlyWithEvaluation ==
    (ReturnedCall /\ Args.debug) =>
        /\ Res.debug # <<>>
        /\ Res.reason # "" => Res.debug[1].reason = Res.reason
        /\ Res.debug[1].reason = "evaluated" <=> Res.evaluation # <<>>
        /\ RejectedAtThreshold => Res.debug[1].reason # "evaluated"

\* the edge the call stopped at: the first without a leg result
StoppedAt == Len(Res.legs) + 1

\* the book of leg k has a non-positive best bid or best ask
TopNonPositive(k) ==
    /\ Args.edges[k].market_code \in DOMAIN ev.snapshots
    /\ BookOf(Args.edges[k].market_code).bids # <<>>
    /\ BookOf(Args.edges[k].market_code).asks # <<>>
    /\ \/ LessEq(BookOf(Args.edges[k].market_code).bids[1].price, Zero)
       \/ LessEq(BookOf(Args.edges[k].market_code).asks[1].price, Zero)

\* the depth walk of x over levels comes to a level with a non-positive price:
\* every level before it has a positive price and is taken whole (its cost on
\* a buy, its size on a sell)
BadLevelReached(levels, side, x) ==
    \E i \in 1..Len(levels) :
        /\ LessEq(levels[i].price, Zero)
        /\ \A j \in 1..(i - 1) : Less(Zero, levels[j].price)
        /\ LessEq(IF side = "buy" THEN CostUpTo(levels, i - 1) ELSE SizeUpTo(levels, i - 1), x)

\* the side of the book that leg k walks
WalkedSide(k) ==
    IF Args.edges[k].side = "buy" THEN BookOf(Args.edges[k].market_code).asks
    ELSE BookOf(Args.edges[k].market_code).bids

\* leg k was simulated and its walk met a non-positive price
MetInWalk(k) ==
    /\ k \in SimulatedLegs \/ (k = StoppedAt /\ Res.raised = "AssertionError")
    /\ BadLevelReached(WalkedSide(k), Args.edges[k].side, InputOf(k))

\* the guards of the edge the call stopped at read a non-positive best price
MetAtTop ==
    /\ StoppedAt <= Len(Args.edges)
    /\ TopNonPositive(StoppedAt)
    /\ Res.reason \notin {PreWalkReason, "Leg received zero notional"}
    /\ Res.raised # "ZeroDivisionError"

\* C36 (as claimed): a level with a non-positive price that the evaluator
\* meets makes the call raise, at the top of the book as below it.
C36_NonPositivePriceRaises ==
    (ev.called /\ (MetAtTop \/ \E k \in 1..Len(Args.edges) : MetInWalk(k))) => Res.raised # ""

\* C36 (amended): a level with a non-positive price that the depth walk of a
\* leg comes to makes the call raise AssertionError, and the call raises it for
\* no other reason; a non-positive best bid or best ask is found by
\* _validate_snapshot before the walk, and the call returns the ordinary
\* rejection "invalid snapshot for <market>".
C36_RaisesBelowTopRejectsAtTop ==
    ev.called =>
        /\ \A k \in 1..Len(Args.edges) : MetInWalk(k) => Res.raised = "AssertionError"
        /\ Res.raised = "AssertionError" => MetInWalk(StoppedAt) /\ ~TopNonPositive(StoppedAt)
        /\ MetAtTop =>
              /\ Res.raised = ""
              /\ Res.evaluation = <<>>
              /\ Res.reason = "invalid snapshot for " \o Args.edges[StoppedAt].market_code

\* the walk of the first leg met the non-positive price behind a positive top
C36_Witness ==
    /\ ev.called
    /\ Res.raised = "AssertionError"
    /\ MetInWalk(1)

\* a book with a non-positive best bid was rejected as an invalid snapshot
C36_WitnessTop ==
    /\ ev.called
    /\ MetAtTop
    /\ Res.raised = ""

\* every level of every book handed to the call has a positive price
PositivePrices ==
    \A m \in DOMAIN ev.snapshots :
        /\ \A i \in 1..Len(ev.snapshots[m].bids) : Less(Zero, ev.snapshots[m].bids[i].price)
        /\ \A i \in 1..Len(ev.snapshots[m].asks) : Less(Zero, ev.snapshots[m].asks[i].price)

\* C37: evaluate never divides by zero: on books with positive prices every
\* call, the empty path and the starting notional 0 included, returns an
\* evaluation or a rejection and does not raise.
C37_NeverDividesByZero ==
    (ev.called /\ PositivePrices) => Res.raised = ""

--------------------------------------------------------------------------
(* Properties of the scanner and the feeds, continued *)

\* every leg of the k-th path trades on the exchange that has a cache, and a
\* book of its market has been published there
AllPublished(k) ==
    \A n \in 1..Len(ScanPaths[k].edges) :
        /\ ScanPaths[k].edges[n].exchange = Exchange
        /\ Published(Exchange, StripPrefix(ScanPaths[k].edges[n].market_code)) # <<>>

\* a step that begins a pass of run_once
PassBegins == scan.made /\ scan.pc \in {"idle", "returned"} /\ scan'.passes = scan.passes + 1

\* C38: when every market of a path has had a book published through update
\* and the start balance is positive, the next pass of run_once does not return
\* None, finds the snapshot of every leg of the path and hands the path to the
\* evaluator instead of skipping it.
C38_PublishedPathIsEvaluated ==
    [][ /\ (PassBegins /\ Less(Zero, scan.start_usdc) /\ \E k \in 1..Len(ScanPaths) : AllPublished(k))
              => scan'.pc = "loop"
        /\ (scan.made /\ scan.pc = "loop" /\ scan.i <= Len(ScanPaths) /\ AllPublished(scan.i))
              => /\ ScanPaths[scan.i].path_id \notin scan'.skipped
                 /\ scan'.i > scan.i => ScanPaths[scan.i].path_id \in scan'.handed ]_vars

\* the snapshots run_once has collected for the path at hand are the ones the
\* cache holds now
SnapshotsAreCurrent ==
    \A m \in DOMAIN scan.snapshots :
        /\ SnapshotLookup(books, single_exchange, m) # <<>>
        /\ scan.snapshots[m] = FloatBook(SnapshotLookup(books, single_exchange, m)[1])

ReceivesBook == \E raw \in RawBooks : ~WsSkips(raw) /\ WsWatch(raw)

\* C40: a watcher that receives a book with non-empty bids and asks, the stop
\* event not being set, publishes it into the cache and goes on watching: the
\* book does not raise its count of consecutive errors, so books alone never
\* make the watcher stop.
C40_ValidBooksKeepWatching ==
    [][ReceivesBook =>
          /\ WsPublishes
          /\ ws'.error_count <= ws.error_count
          /\ ws'.state = "watching" ]_vars

==========================================================================
